---- MODULE Spec2Model ----
(***************************************************************************)
(* A model of PS::V3::BlobStore (dbms/src/Storages/Page/V3/BlobStore.cpp): *)
(* the write, remove, getGCStats, gc and read paths, the BlobStats         *)
(* registry and the blob files on disk.  Every operation is split at the   *)
(* points where the code takes or drops a lock, so that the same actions   *)
(* give the sequential behaviours (Spec: one call at a time) and the       *)
(* interleaved ones (SpecConc: a writer, a remover and the gc thread).     *)
(***************************************************************************)
EXTENDS Integers, Sequences, FiniteSets, TLC

(***************************************************************************)
(* Bounds of the model.                                                    *)
(***************************************************************************)
FileLimit == 2        \* config.file_limit_size, scaled down
MaxPageSize == 3      \* largest payload of one PUT
MaxBlobId == 4        \* blob ids are 1..MaxBlobId
MaxPageId == 2        \* external page ids are 1..MaxPageId
MaxBatch == 2         \* operations in one write batch
MaxGcEntries == 2     \* entries handed to one gc() call
MaxOps == 3           \* calls in one sequential run
MaxWriteOps == 2      \* calls in one run of writes
MaxConcOps == 4       \* calls in one interleaved run
SeqPrefix == 2        \* of which the first SeqPrefix do not overlap
MaxConcPageSize == 1  \* largest payload of one PUT in an interleaved run
MaxHoleSize == 2          \* the sizes of the pages written around a hole
GcRaceSeq == 3          \* calls up to and including getGCStats do not overlap
TruncateSeq == 6        \* calls before the getGCStats do not overlap
ReselectSeq == 3        \* calls up to the first getGCStats do not overlap
RestartSeq == 3         \* calls up to and including the restart do not overlap
MaxFaults == 1        \* failures of the environment in one run
MaxFields == 3        \* fields of one payload
MaxReadOps == 2       \* calls in one run of a write and a read
MaxReadBatch == 2     \* entries of one read

INVALID_BLOBFILE_ID == 0
INVALID_BLOBFILE_OFFSET == -1

BlobIds == 1..MaxBlobId
PageIds == 1..MaxPageId

Max2(a, b) == IF a >= b THEN a ELSE b
Min2(a, b) == IF a <= b THEN a ELSE b
SetMax(S) == CHOOSE x \in S : \A y \in S : y <= x
SetMin(S) == CHOOSE x \in S : \A y \in S : x <= y
Range(s) == {s[i] : i \in DOMAIN s}

RECURSIVE SumSizes(_)
SumSizes(s) == IF s = <<>> THEN 0 ELSE Head(s).size + SumSizes(Tail(s))

(***************************************************************************)
(* Payloads and checksums.  The payload source of page p with n bytes      *)
(* yields bytes that differ from page to page and from position to         *)
(* position; 0 is the value of a byte of a file that was never written.    *)
(***************************************************************************)
Payload(p, n) == [i \in 1..n |-> ((p + i) % 3) + 1]

RECURSIVE CRC64(_)
CRC64(bytes) ==
    IF bytes = <<>> THEN 7
    ELSE (CRC64(SubSeq(bytes, 1, Len(bytes) - 1)) * 5 + bytes[Len(bytes)]) % 251

(***************************************************************************)
(* SpaceMap: the set of allocated byte offsets of one blob over [0, cap).  *)
(***************************************************************************)
Cells(offset, size) == offset .. (offset + size - 1)

FreeRun(smap, cap, offset, size) ==
    /\ offset + size <= cap
    /\ Cells(offset, size) \cap smap = {}

\* A search that returns the highest offset that fits.
searchInsertOffsetHighest(smap, cap, size) ==
    LET fits == {o \in 0..(cap - size) : FreeRun(smap, cap, o, size)}
    IN  IF size > cap \/ fits = {} THEN INVALID_BLOBFILE_OFFSET ELSE SetMax(fits)

searchInsertOffset(smap, cap, size) ==
    LET fits == {o \in 0..(cap - size) : FreeRun(smap, cap, o, size)}
    IN  IF size > cap \/ fits = {} THEN INVALID_BLOBFILE_OFFSET ELSE SetMin(fits)

getUsedBoundary(smap) == IF smap = {} THEN 0 ELSE SetMax(smap) + 1

MaxFreeRun(smap, cap) ==
    SetMax({n \in 0..cap : \E o \in 0..(cap - n) : FreeRun(smap, cap, o, n)})

isAllocated(smap, offset, size) == Cells(offset, size) \subseteq smap

(***************************************************************************)
(* BlobStat.                                                               *)
(***************************************************************************)
NoStat ==
    [reg |-> FALSE, read_only |-> FALSE, sm_total_size |-> 0, sm_valid_size |-> 0,
     sm_max_caps |-> 0, cap |-> 0, smap |-> {}]

NewStat(max_caps) ==
    [reg |-> TRUE, read_only |-> FALSE, sm_total_size |-> 0, sm_valid_size |-> 0,
     sm_max_caps |-> max_caps, cap |-> max_caps, smap |-> {}]

\* BlobStat::getPosFromStat: first fit, then the size accounting.
getPosFromStat(stat, size) ==
    LET offset == searchInsertOffset(stat.smap, stat.cap, size)
    IN  IF offset = INVALID_BLOBFILE_OFFSET
        THEN [stat |-> [stat EXCEPT !.sm_max_caps = MaxFreeRun(stat.smap, stat.cap)],
              offset |-> offset]
        ELSE LET smap2 == stat.smap \cup Cells(offset, size)
             IN  [stat |-> [stat EXCEPT
                               !.smap = smap2,
                               !.sm_max_caps = MaxFreeRun(smap2, stat.cap),
                               !.sm_total_size = Max2(stat.sm_total_size, offset + size),
                               !.sm_valid_size = stat.sm_valid_size + size],
                  offset |-> offset]

\* BlobStat::removePosFromStat: fails when the span is not allocated.
removePosFromStat(stat, offset, size) ==
    IF isAllocated(stat.smap, offset, size)
    THEN [stat |-> [stat EXCEPT !.smap = stat.smap \ Cells(offset, size),
                                !.sm_valid_size = stat.sm_valid_size - size],
          ok |-> TRUE]
    ELSE [stat |-> stat, ok |-> FALSE]

recalculateCapacity(stat) ==
    [stat EXCEPT !.sm_max_caps = MaxFreeRun(stat.smap, stat.cap)]

changeToReadOnly(stat) == [stat EXCEPT !.read_only = TRUE]

(***************************************************************************)
(* BlobStats: the registry.  stats[b].reg says whether blob b has a stat.  *)
(***************************************************************************)
\* A choice that takes read-only stats as well.
chooseStatAnyType(sts, size) ==
    LET ok == {b \in BlobIds : sts[b].reg /\ sts[b].sm_max_caps >= size}
    IN  IF ok = {} THEN INVALID_BLOBFILE_ID ELSE SetMin(ok)

\* BlobStats::chooseStat: the first writable stat that claims enough room,
\* or no stat (the caller then creates one under roll_id).
chooseStat(sts, size) ==
    LET ok == {b \in BlobIds : sts[b].reg /\ ~sts[b].read_only /\ sts[b].sm_max_caps >= size}
    IN  IF ok = {} THEN INVALID_BLOBFILE_ID ELSE SetMin(ok)

createStat(sts, blob_id, max_caps) == [sts EXCEPT ![blob_id] = NewStat(max_caps)]

\* The stat leaves the registry; the object lives on for the threads that hold it.
eraseStat(sts, blob_id) == [sts EXCEPT ![blob_id].reg = FALSE]

(***************************************************************************)
(* BlobFile: disk[b] is the file blobfile_<b>.                             *)
(***************************************************************************)
NoFile == [exists |-> FALSE, data |-> <<>>]

\* Opening a blob file creates it when it is not on disk.
fileOpen(dsk, blob_id) ==
    IF dsk[blob_id].exists THEN dsk
    ELSE [dsk EXCEPT ![blob_id] = [exists |-> TRUE, data |-> <<>>]]

\* BlobFile::write: positional write that grows the file as needed.
fileWrite(dsk, blob_id, offset, bytes) ==
    LET old == dsk[blob_id].data
        n   == Max2(Len(old), offset + Len(bytes))
        new == [i \in 1..n |->
                   IF i > offset /\ i <= offset + Len(bytes) THEN bytes[i - offset]
                   ELSE IF i <= Len(old) THEN old[i] ELSE 0]
    IN  [dsk EXCEPT ![blob_id] = [exists |-> TRUE, data |-> new]]

\* BlobFile::read: the bytes of [offset, offset + size); fails past the end.
fileCanRead(dsk, blob_id, offset, size) ==
    dsk[blob_id].exists /\ offset + size <= Len(dsk[blob_id].data)

fileRead(dsk, blob_id, offset, size) ==
    [i \in 1..size |-> dsk[blob_id].data[offset + i]]

\* BlobFile::truncate: the file gets new_size bytes (a longer file is cut, a
\* shorter one is extended with zero bytes).
fileTruncate(dsk, blob_id, new_size) ==
    [dsk EXCEPT ![blob_id].data =
        [i \in 1..new_size |->
            IF i <= Len(dsk[blob_id].data) THEN dsk[blob_id].data[i] ELSE 0]]

\* BlobFile::remove
fileRemove(dsk, blob_id) == [dsk EXCEPT ![blob_id] = NoFile]

(***************************************************************************)
(* State.                                                                  *)
(***************************************************************************)
VARIABLES
    stats,        \* blob_stats: blob id -> BlobStat
    roll_id,      \* blob_stats.roll_id: the id of the next created stat
    disk,         \* the blob files on disk
    blob_files,   \* the open-file cache: ids with a cached BlobFile
    block_alignment_bytes,  \* config.block_alignment_bytes
    dir,          \* the page directory: the live entries
    stale,        \* entries superseded by gc and not yet passed to remove
    th,           \* the calls in flight, one per thread
    last,         \* the call that has just returned
    nops,         \* calls started so far
    faults        \* failures of the environment met so far

vars == <<stats, roll_id, disk, blob_files, block_alignment_bytes, dir, stale, th, last,
          nops, faults>>

store == <<stats, roll_id, disk, blob_files>>

Threads == {"w", "r", "g"}

(***************************************************************************)
(* Entries, edits and write batches.                                       *)
(***************************************************************************)
NoEntry == [file_id |-> INVALID_BLOBFILE_ID, offset |-> 0, size |-> 0,
            padded_size |-> 0, checksum |-> 0, field_offsets |-> <<>>]

\* PageEntryV3::getTotalSize
getTotalSize(entry) == entry.size + entry.padded_size

EditRec(kind, page_id, entry) ==
    [kind |-> kind, page_id |-> page_id, entry |-> entry, ori_page_id |-> 0]

\* edit.ref(page_id, ori_page_id)
RefRec(page_id, ori_page_id) ==
    [kind |-> "ref", page_id |-> page_id, entry |-> NoEntry, ori_page_id |-> ori_page_id]

DataTypes == {"PUT", "UPDATE_DATA_FROM_REMOTE"}

\* A write of a batch; offsets are the starts of the fields of its payload.
FieldWriteOp(type, page_id, size, offsets) ==
    [type |-> type, page_id |-> page_id, size |-> size, offsets |-> offsets,
     ori_page_id |-> 0]

\* WriteBatch::putRefPage
RefOp(page_id, ori_page_id) ==
    [FieldWriteOp("REF", page_id, 0, <<>>) EXCEPT !.ori_page_id = ori_page_id]

WriteOp(type, page_id, size) == FieldWriteOp(type, page_id, size, <<>>)

RECURSIVE SeqsUpTo(_, _)
SeqsUpTo(S, n) ==
    IF n = 0 THEN {<<>>}
    ELSE LET shorter == SeqsUpTo(S, n - 1)
         IN  shorter \cup {Append(q, x) : q \in {r \in shorter : Len(r) = n - 1}, x \in S}

\* Batches of PUTs only: the k-th operation of a batch puts page k.
RECURSIVE PutBatchesOf(_, _)
PutBatchesOf(n, max_size) ==
    IF n = 0 THEN {<<>>}
    ELSE {Append(q, WriteOp("PUT", n, size)) :
              q \in {r \in PutBatchesOf(n - 1, max_size) : Len(r) = n - 1},
              size \in 1..max_size}
         \cup PutBatchesOf(n - 1, max_size)

PutBatches == PutBatchesOf(Min2(MaxBatch, MaxPageId), MaxPageSize) \ {<<>>}

\* The batches of the interleaved runs.
SmallPutBatches == PutBatchesOf(Min2(MaxBatch, MaxPageId), MaxConcPageSize) \ {<<>>}

\* The starts of the fields of a payload of `size` bytes: 0 comes first.
FieldStarts(size) ==
    {<<0>> \o SortSeq(q, <) :
        q \in {r \in SeqsUpTo(1..size, MaxFields - 1) :
                   \A i, j \in DOMAIN r : i < j => r[i] < r[j]}}

FieldOps(p, max_size) ==
    {FieldWriteOp("PUT", p, n, offs) :
        n \in 1..max_size, offs \in UNION {FieldStarts(m) : m \in 1..max_size}}

\* Batches of PUTs with fields: one page, or two pages of the small path.
FieldBatches ==
    {<<op>> : op \in {o \in FieldOps(1, MaxPageSize) : o.offsets \in FieldStarts(o.size)}}
    \cup {<<a, b>> : a \in {o \in FieldOps(1, FileLimit) : o.offsets \in FieldStarts(o.size)},
                     b \in {o \in FieldOps(2, FileLimit) : o.offsets \in FieldStarts(o.size)}}

\* Batches of every kind of operation.
WriteOps ==
    {WriteOp("PUT", p, n) : p \in PageIds, n \in 0..MaxPageSize}
    \cup {WriteOp("UPDATE_DATA_FROM_REMOTE", 1, n) : n \in 1..FileLimit}
    \cup {WriteOp(ty, 1, 0) : ty \in {"PUT_REMOTE", "DEL", "PUT_EXTERNAL", "UPSERT"}}
    \cup {RefOp(1, MaxPageId)}

WriteBatches == SeqsUpTo(WriteOps, MaxBatch)

\* WriteBatch::getTotalDataSize: the sizes of the operations that carry bytes.
RECURSIVE getTotalDataSize(_)
getTotalDataSize(wb) ==
    IF wb = <<>> THEN 0
    ELSE (IF Head(wb).type \in DataTypes THEN Head(wb).size ELSE 0)
         + getTotalDataSize(Tail(wb))

(***************************************************************************)
(* Threads.  th[t] is the frame of the call thread t is in.                *)
(***************************************************************************)
NoRel == [blob_id |-> 0, offset |-> 0, size |-> 0]

NoPre == [b \in BlobIds |-> [smap |-> {}, sm_valid_size |-> 0]]

IdleTh ==
    [pc |-> "idle", op |-> "none", after |-> "idle", err |-> "",
     wb |-> <<>>, total |-> 0, replenish |-> 0, k |-> 0, inject |-> "",
     need |-> 0, stat |-> 0, holds |-> FALSE, waitfor |-> "",
     blob_id |-> 0, offset |-> 0,
     rel |-> NoRel, edit |-> <<>>, allocs |-> {}, alloc_ro |-> FALSE, emptied |-> {},
     got |-> <<>>, pre |-> NoPre,
     ents |-> <<>>, alloc_size |-> 0, remaining |-> 0, offset_in_data |-> 0,
     data_buf |-> <<>>, written_blobs |-> <<>>, revert |-> 0,
     snapshot |-> <<>>, blob_need_gc |-> <<>>, examined |-> {}, zeroed |-> {},
     del |-> <<>>,
     blob_updated |-> {}]

NoLast == [op |-> "none", err |-> "", path |-> "", got_pos |-> FALSE, emptied |-> {},
           edit |-> <<>>, ids |-> <<>>,
           allocs |-> {}, pre |-> NoPre, at |-> "", arg |-> <<>>, data |-> <<>>,
           pages |-> {}, got |-> <<>>]

Snapshot(sts) ==
    [b \in BlobIds |->
        IF sts[b].reg THEN [smap |-> sts[b].smap, sm_valid_size |-> sts[b].sm_valid_size]
        ELSE [smap |-> {}, sm_valid_size |-> 0]]

OthersIdle(t) == \A u \in Threads \ {t} : th[u].pc = "idle"

\* A run is a bounded number of calls, of which the first do not overlap.
Sequential == [ops |-> MaxOps, seq |-> MaxOps]
Overlapped == [ops |-> MaxConcOps, seq |-> SeqPrefix]
WritesOnly == [ops |-> MaxWriteOps, seq |-> MaxWriteOps]

StartOK(t, run) ==
    /\ th[t].pc = "idle"
    /\ last.err # "Abort"
    /\ nops < run.ops
    /\ (nops < run.seq => OthersIdle(t))

\* The environment fails: a full disk, a failed write or a failed read.
Fault == faults < MaxFaults /\ faults' = faults + 1

Result(t, err, at) ==
    [op |-> th[t].op, err |-> err,
     path |-> IF th[t].op = "write"
              THEN (IF th[t].total > FileLimit THEN "large" ELSE "small") ELSE "",
     got_pos |-> th[t].blob_id # INVALID_BLOBFILE_ID,
     emptied |-> th[t].emptied,
     edit |-> IF err = "" THEN th[t].edit ELSE <<>>,
     ids |-> IF err = "" THEN th[t].blob_need_gc ELSE <<>>,
     allocs |-> IF err = "" THEN {} ELSE th[t].allocs,
     pre |-> IF err = "" /\ th[t].op # "remove" THEN NoPre ELSE th[t].pre,
     at |-> at,
     arg |-> IF th[t].op = "gc" THEN th[t].ents
             ELSE IF th[t].op = "write" THEN th[t].wb
             ELSE IF th[t].op = "remove" THEN th[t].del ELSE <<>>,
     data |-> <<>>,
     pages |-> {},
     got |-> th[t].got]

\* The call of thread t ends with an exception of kind err raised at `at`.
Throw(t, err, at) ==
    /\ th' = [th EXCEPT ![t] = IdleTh]
    /\ last' = Result(t, err, at)

(***************************************************************************)
(* Locks.  Every step that works on a stat runs under the lock of the stat *)
(* and is one action.  getPosFromStats takes the lock of the chosen stat   *)
(* while it still has the lock of the registry (line 553): the thread      *)
(* either gets the lock at once and keeps it up to its allocation (holds), *)
(* or it waits, with the lock of the registry, behind the thread that has  *)
(* the lock of the stat (waitfor).                                         *)
(***************************************************************************)
\* The stat whose lock the next step of thread u takes, or no stat.
StatOpTarget(u) ==
    CASE th[u].pc = "alloc"   -> th[u].stat
      [] th[u].pc = "release" -> th[u].rel.blob_id
      [] th[u].pc = "rm_recalc" ->
             IF th[u].blob_updated = {} THEN INVALID_BLOBFILE_ID
             ELSE SetMin(th[u].blob_updated)
      [] th[u].pc = "gs_next" ->
             IF th[u].k > Len(th[u].snapshot) THEN INVALID_BLOBFILE_ID
             ELSE IF stats[th[u].snapshot[th[u].k]].read_only THEN INVALID_BLOBFILE_ID
             ELSE th[u].snapshot[th[u].k]
      [] OTHER -> INVALID_BLOBFILE_ID

InGetPos(a, b) == th[a].pc = "alloc" /\ th[a].stat = b

\* Thread u can take the lock of stat b.
LockFree(b, u) ==
    \A a \in Threads \ {u} :
        InGetPos(a, b) => (~th[a].holds /\ th[a].waitfor \in {"", u})

\* Thread u can take the lock of the registry.
RegistryFree(u) == \A a \in Threads \ {u} : th[a].pc = "alloc" => th[a].holds

\* Thread u has dropped the lock of stat b: who waited behind u now competes.
Released(frames, u, b) ==
    [a \in Threads |->
        IF a # u /\ frames[a].pc = "alloc" /\ frames[a].stat = b /\ frames[a].waitfor = u
        THEN [frames[a] EXCEPT !.waitfor = ""]
        ELSE frames[a]]

\* The removal of an empty blob with the lock of its stat still held.
LockScopesEraseUnderStat(pc, holds) ==
    CASE pc = "choose"    -> {<<"registry", "stat">>}
      [] pc = "alloc"     -> IF holds THEN {<<"stat">>} ELSE {<<"registry", "stat">>}
      [] pc = "release"   -> {<<"stat">>}
      [] pc = "erase"     -> {<<"stat", "registry">>, <<"stat", "blob_files">>}
      [] pc = "rm_recalc" -> {<<"stat">>}
      [] pc = "gs_next"   -> {<<"stat", "blob_files">>}
      [] pc \in {"write", "lw_write", "gc_copy", "gc_roll", "gc_final"} -> {<<"blob_files">>}
      [] OTHER -> {}

\* The locks that the step at pc has at one time, in the order in which it
\* takes them: lock_stat (lines 537-554) takes the lock of the stat under the
\* lock of the registry and keeps it for the allocation; removePosFromStats
\* takes the lock of the stat (591), then the lock of the registry (612), then
\* mtx_blob_files (617), each after it gave up the one before; remove takes
\* the lock of a stat at line 516; getGCStats opens the file to truncate
\* (lines 1002, 1045) under the lock of the stat (989); getBlobFile (1228)
\* takes mtx_blob_files.
LockScopes(pc, holds) ==
    CASE pc = "choose"    -> {<<"registry", "stat">>}
      [] pc = "alloc"     -> IF holds THEN {<<"stat">>} ELSE {<<"registry", "stat">>}
      [] pc = "release"   -> {<<"stat">>}
      [] pc = "erase"     -> {<<"registry">>, <<"blob_files">>}
      [] pc = "rm_recalc" -> {<<"stat">>}
      [] pc = "gs_next"   -> {<<"stat", "blob_files">>}
      [] pc \in {"write", "lw_write", "gc_copy", "gc_roll", "gc_final"} -> {<<"blob_files">>}
      [] OTHER -> {}

\* Thread t waits for a lock that another thread has.
Blocked(t) ==
    CASE th[t].pc \in {"choose", "erase"} -> ~RegistryFree(t)
      [] th[t].pc = "alloc" ->
             ~th[t].holds /\ ~(th[t].waitfor = "" /\ LockFree(th[t].stat, t))
      [] th[t].pc = "release" -> ~LockFree(th[t].rel.blob_id, t)
      [] th[t].pc = "rm_recalc" ->
             th[t].blob_updated # {} /\ ~LockFree(SetMin(th[t].blob_updated), t)
      [] th[t].pc = "gs_next" ->
             /\ th[t].k <= Len(th[t].snapshot)
             /\ ~stats[th[t].snapshot[th[t].k]].read_only
             /\ ~LockFree(th[t].snapshot[th[t].k], t)
      [] OTHER -> FALSE

(***************************************************************************)
(* BlobStore::getPosFromStats, in two steps: the choice of the stat under  *)
(* the registry lock, then the allocation under the stat's lock.           *)
(***************************************************************************)
\* lines 537-547 (lock_stat): chooseStat, or createStat under a fresh id.
\* createStat fails when the delegator has no room for a new blob file.
GetPosChoose(t) ==
    /\ th[t].pc = "choose"
    /\ RegistryFree(t)
    /\ LET c == chooseStat(stats, th[t].need)
       IN  IF c # INVALID_BLOBFILE_ID
           THEN /\ \/ /\ LockFree(c, t)
                      /\ th' = [th EXCEPT ![t].stat = c, ![t].holds = TRUE,
                                          ![t].waitfor = "", ![t].pc = "alloc"]
                   \/ \E u \in Threads \ {t} :
                      /\ StatOpTarget(u) = c
                      /\ th' = [th EXCEPT ![t].stat = c, ![t].holds = FALSE,
                                          ![t].waitfor = u, ![t].pc = "alloc"]
                /\ UNCHANGED <<stats, roll_id, last, faults>>
           ELSE \/ /\ roll_id <= MaxBlobId
                   /\ stats' = createStat(stats, roll_id, Max2(th[t].need, FileLimit))
                   /\ roll_id' = roll_id + 1
                   /\ th' = [th EXCEPT ![t].stat = roll_id, ![t].holds = TRUE,
                                       ![t].waitfor = "", ![t].pc = "alloc"]
                   /\ UNCHANGED <<last, faults>>
                \/ /\ Fault
                   /\ Throw(t, "Alloc", "createStat")
                   /\ UNCHANGED <<stats, roll_id>>
    /\ UNCHANGED <<disk, blob_files, block_alignment_bytes, dir, stale, nops>>

\* lines 553-585: under the stat's lock, the speculative decrement of
\* sm_max_caps and BlobStat::getPosFromStat.
GetPosAlloc(t) ==
    /\ th[t].pc = "alloc"
    /\ IF th[t].holds THEN TRUE ELSE th[t].waitfor = "" /\ LockFree(th[t].stat, t)
    /\ LET b    == th[t].stat
           st1  == [stats[b] EXCEPT !.sm_max_caps = stats[b].sm_max_caps - th[t].need]
           res  == getPosFromStat(st1, th[t].need)
       IN  /\ stats' = [stats EXCEPT ![b] = res.stat]
           /\ IF res.offset = INVALID_BLOBFILE_OFFSET
              THEN /\ th' = Released([th EXCEPT ![t] = IdleTh], t, b)
                   /\ last' = Result(t, "Logic", "getPosFromStats")
              ELSE /\ th' = Released([th EXCEPT
                              ![t].blob_id = b,
                              ![t].offset = res.offset,
                              ![t].holds = FALSE,
                              ![t].allocs = th[t].allocs \cup
                                            {<<b, c>> : c \in Cells(res.offset, th[t].need)},
                              ![t].alloc_ro = th[t].alloc_ro \/ stats[b].read_only,
                              ![t].got = Append(th[t].got,
                                                [blob_id |-> b, offset |-> res.offset,
                                                 size |-> th[t].need]),
                              ![t].pc = th[t].after], t, b)
                   /\ UNCHANGED last
    /\ UNCHANGED <<roll_id, disk, blob_files, block_alignment_bytes, dir, stale, nops, faults>>

(***************************************************************************)
(* BlobStore::removePosFromStats, in two steps: the release under the      *)
(* stat's lock, then the removal of an empty read-only blob.               *)
(***************************************************************************)
\* lines 591-602.  blobIdToStat throws for an id without a stat, and
\* removePosFromStat for a span that is not allocated.
RemovePosRelease(t) ==
    /\ th[t].pc = "release"
    /\ LockFree(th[t].rel.blob_id, t)
    /\ LET b   == th[t].rel.blob_id
           res == removePosFromStat(stats[b], th[t].rel.offset, th[t].rel.size)
       IN  IF ~stats[b].reg \/ ~res.ok
           THEN /\ th' = Released([th EXCEPT ![t] = IdleTh], t, b)
                /\ last' = Result(t, "Logic", "removePosFromStats")
                /\ UNCHANGED stats
           ELSE /\ stats' = [stats EXCEPT ![b] = res.stat]
                /\ th' = Released([th EXCEPT
                            ![t].allocs = th[t].allocs \
                                {<<b, c>> : c \in Cells(th[t].rel.offset, th[t].rel.size)},
                            ![t].emptied = IF res.stat.read_only /\ res.stat.sm_valid_size = 0
                                           THEN th[t].emptied \cup {b} ELSE th[t].emptied,
                            ![t].pc = IF res.stat.read_only /\ res.stat.sm_valid_size = 0
                                      THEN "erase" ELSE th[t].after], t, b)
                /\ UNCHANGED last
    /\ UNCHANGED <<roll_id, disk, blob_files, block_alignment_bytes, dir, stale, nops, faults>>

\* lines 608-627: eraseStat, then the removal of the file when it is cached.
RemovePosErase(t) ==
    /\ th[t].pc = "erase"
    /\ RegistryFree(t)
    /\ LET b == th[t].rel.blob_id
       IN  /\ stats' = eraseStat(stats, b)
           /\ IF b \in blob_files
              THEN /\ disk' = fileRemove(disk, b)
                   /\ blob_files' = blob_files \ {b}
              ELSE UNCHANGED <<disk, blob_files>>
    /\ th' = [th EXCEPT ![t].pc = th[t].after]
    /\ UNCHANGED <<roll_id, block_alignment_bytes, dir, stale, last, nops, faults>>

\* A rethrown exception leaves the call.
Rethrow(t) ==
    /\ th[t].pc = "rethrow"
    /\ Throw(t, th[t].err, th[t].inject)
    /\ UNCHANGED <<stats, roll_id, disk, blob_files, block_alignment_bytes, dir, stale, nops, faults>>

\* BlobStore::getBlobFile: the cached file, or a new BlobFile put in the cache.
getBlobFile(files, blob_id) == files \cup {blob_id}

(***************************************************************************)
(* BlobStore::write.                                                       *)
(***************************************************************************)
DirEnt(page_id, entry) == [page_id |-> page_id, entry |-> entry]

\* The entries of an edit that the directory records without payload bytes:
\* external and remote pages, and pages of length 0.
EmptyEntries(edit) ==
    {DirEnt(edit[i].page_id, edit[i].entry) :
        i \in {j \in DOMAIN edit : /\ edit[j].kind \in {"put", "updateRemote", "upsert",
                                                        "putExternal", "putRemote"}
                                   /\ edit[j].entry.size = 0}}

\* The entries of an edit that the directory records as local pages.
LocalEntries(edit) ==
    {DirEnt(edit[i].page_id, edit[i].entry) :
        i \in {j \in DOMAIN edit : /\ edit[j].kind \in {"put", "updateRemote", "upsert"}
                                   /\ edit[j].entry.file_id # INVALID_BLOBFILE_ID
                                   /\ edit[j].entry.size > 0}}

\* lines 387-403 (and 195-211): the start of every field with the checksum of
\* its bytes; the last field ends with the payload.
FieldChecksums(bytes, offsets) ==
    [i \in DOMAIN offsets |->
        LET field_begin == offsets[i]
            field_end   == IF i = Len(offsets) THEN Len(bytes) ELSE offsets[i + 1]
        IN  <<field_begin, CRC64(SubSeq(bytes, field_begin + 1, field_end))>>]

\* lines 416-429: the entry of a PUT_REMOTE takes the offsets as they come.
RemoteEntry(op) == [NoEntry EXCEPT !.field_offsets = [i \in DOMAIN op.offsets |-> <<op.offsets[i], 0>>]]

\* Edit records in which a reference is recorded as a deletion.
NoDataRecRefAsDel(op) ==
    CASE op.type = "PUT_REMOTE"   -> EditRec("put", op.page_id, RemoteEntry(op))
      [] op.type = "DEL"          -> EditRec("del", op.page_id, NoEntry)
      [] op.type = "REF"          -> EditRec("del", op.page_id, NoEntry)
      [] op.type = "PUT_EXTERNAL" -> EditRec("putExternal", op.page_id, NoEntry)

\* The edit record of an operation that carries no bytes (lines 416-444).
NoDataRec(op) ==
    CASE op.type = "PUT_REMOTE"   -> EditRec("put", op.page_id, RemoteEntry(op))
      [] op.type = "DEL"          -> EditRec("del", op.page_id, NoEntry)
      [] op.type = "REF"          -> RefRec(op.page_id, op.ori_page_id)
      [] op.type = "PUT_EXTERNAL" -> EditRec("putExternal", op.page_id, NoEntry)

\* lines 283-330: the shortcut for a batch without data.
ZeroSizeThrows(wb) ==
    \E i \in DOMAIN wb : wb[i].type \in {"PUT", "UPSERT", "UPDATE_DATA_FROM_REMOTE"}

ZeroSizeEdit(wb) == [i \in DOMAIN wb |-> NoDataRec(wb[i])]

\* lines 347-352
ReplenishSize(total, align) ==
    IF align # 0 /\ total % align # 0 THEN align - (total % align) ELSE 0

\* An edit whose entries all start at the head of the allocated region.
RECURSIVE BuildEditNoAdvance(_, _, _, _, _, _)
BuildEditNoAdvance(wb, blob_id, offset_in_file, offset_in_allocated, total, replenish) ==
    IF wb = <<>> THEN <<>>
    ELSE LET op == Head(wb)
             entry == [file_id |-> blob_id, offset |-> offset_in_file, size |-> op.size,
                       padded_size |-> 0,
                       checksum |-> CRC64(Payload(op.page_id, op.size)),
                       field_offsets |-> FieldChecksums(Payload(op.page_id, op.size),
                                                        op.offsets)]
             kind  == IF op.type = "PUT" THEN "put" ELSE "updateRemote"
         IN  <<IF op.type \in DataTypes THEN EditRec(kind, op.page_id, entry)
               ELSE NoDataRec(op)>>
             \o BuildEditNoAdvance(Tail(wb), blob_id, offset_in_file, offset_in_allocated,
                                   total, replenish)

\* lines 360-448: the edit of the small-batch path; the data operations are
\* laid out one after the other from offset_in_file.
RECURSIVE BuildEdit(_, _, _, _, _, _)
BuildEdit(wb, blob_id, offset_in_file, offset_in_allocated, total, replenish) ==
    IF wb = <<>> THEN <<>>
    ELSE LET op == Head(wb)
         IN  IF op.type \in DataTypes
             THEN LET after == offset_in_allocated + op.size
                      entry == [file_id |-> blob_id,
                                offset |-> offset_in_file + offset_in_allocated,
                                size |-> op.size,
                                padded_size |-> IF after = total THEN replenish ELSE 0,
                                checksum |-> CRC64(Payload(op.page_id, op.size)),
                                field_offsets |-> FieldChecksums(
                                    Payload(op.page_id, op.size), op.offsets)]
                      kind  == IF op.type = "PUT" THEN "put" ELSE "updateRemote"
                  IN  <<EditRec(kind, op.page_id, entry)>>
                      \o BuildEdit(Tail(wb), blob_id, offset_in_file, after, total, replenish)
             ELSE <<NoDataRec(op)>>
                  \o BuildEdit(Tail(wb), blob_id, offset_in_file, offset_in_allocated,
                               total, replenish)

\* The buffer of the small-batch path: the payloads in batch order.
RECURSIVE BuildBuffer(_)
BuildBuffer(wb) ==
    IF wb = <<>> THEN <<>>
    ELSE (IF Head(wb).type \in DataTypes
          THEN Payload(Head(wb).page_id, Head(wb).size) ELSE <<>>)
         \o BuildBuffer(Tail(wb))

HasUpsert(wb) == \E i \in DOMAIN wb : wb[i].type = "UPSERT"
HasData(wb) == \E i \in DOMAIN wb : wb[i].type \in DataTypes /\ wb[i].size > 0

\* No batch takes the shortcut for batches without data.
NoZeroSizeBatch(total) == FALSE

\* line 283
IsZeroSizeBatch(total) == total = 0

\* A batch of exactly the limit goes the way of the large batches.
IsLargeBatchAtLimit(total) == total >= FileLimit

\* line 336
IsLargeBatch(total) == total > FileLimit

\* lines 275-356: the call, up to the request of a position.
WriteStart(t, wb, run) ==
    /\ StartOK(t, run)
    /\ nops' = nops + 1
    /\ UNCHANGED faults
    /\ LET total == getTotalDataSize(wb)
           frame == [IdleTh EXCEPT !.op = "write", !.wb = wb, !.total = total,
                                   !.pre = Snapshot(stats)]
       IN  IF IsZeroSizeBatch(total)
           THEN /\ last' = [NoLast EXCEPT
                               !.op = "write", !.path = "zero", !.arg = wb,
                               !.err = IF ZeroSizeThrows(wb) THEN "Logic" ELSE "",
                               !.edit = IF ZeroSizeThrows(wb) THEN <<>> ELSE ZeroSizeEdit(wb),
                               !.pre = IF ZeroSizeThrows(wb) THEN Snapshot(stats) ELSE NoPre]
                /\ UNCHANGED th
           ELSE /\ last' = NoLast
                /\ IF IsLargeBatch(total)
                   THEN th' = [th EXCEPT ![t] = [frame EXCEPT !.k = 1, !.pc = "lw_next"]]
                   ELSE LET rep == ReplenishSize(total, block_alignment_bytes)
                        IN  th' = [th EXCEPT ![t] =
                                      [frame EXCEPT !.replenish = rep, !.need = total + rep,
                                                    !.after = "build", !.pc = "choose"]]
    /\ UNCHANGED <<stats, roll_id, disk, blob_files, block_alignment_bytes, dir, stale>>

\* lines 360-461: the buffer and the edit are built from the batch.  A read of
\* a payload source may fail, and an UPSERT is rejected; both leave the loop
\* by an exception.
WriteBuild(t) ==
    /\ th[t].pc = "build"
    /\ \/ /\ HasData(th[t].wb)
          /\ Fault
          /\ Throw(t, "Io", "readStrict")
       \/ /\ HasUpsert(th[t].wb)
          /\ Throw(t, "Logic", "UPSERT")
          /\ UNCHANGED faults
       \/ /\ ~HasUpsert(th[t].wb)
          /\ UNCHANGED faults
          /\ th' = [th EXCEPT
                      ![t].edit = BuildEdit(th[t].wb, th[t].blob_id, th[t].offset, 0,
                                            th[t].total, th[t].replenish),
                      ![t].data_buf = BuildBuffer(th[t].wb),
                      ![t].pc = "write"]
          /\ UNCHANGED last
    /\ UNCHANGED <<stats, roll_id, disk, blob_files, block_alignment_bytes, dir, stale, nops>>

\* lines 463-479: the buffer is written at the allocated position; a failed
\* write releases the allocation and rethrows.
WriteFlush(t) ==
    /\ th[t].pc = "write"
    /\ blob_files' = getBlobFile(blob_files, th[t].blob_id)
    /\ \/ /\ disk' = fileWrite(disk, th[t].blob_id, th[t].offset, th[t].data_buf)
          /\ dir' = dir \cup LocalEntries(th[t].edit)
          /\ th' = [th EXCEPT ![t] = IdleTh]
          /\ last' = Result(t, "", "")
          /\ UNCHANGED faults
       \/ /\ Fault
          /\ disk' = fileOpen(disk, th[t].blob_id)
          /\ th' = [th EXCEPT
                      ![t].rel = [blob_id |-> th[t].blob_id, offset |-> th[t].offset,
                                  size |-> th[t].need],
                      ![t].err = "Io", ![t].inject = "write",
                      ![t].after = "rethrow", ![t].pc = "release"]
          /\ UNCHANGED <<dir, last>>
    /\ UNCHANGED <<stats, roll_id, block_alignment_bytes, stale, nops>>

(***************************************************************************)
(* BlobStore::handleLargeWrite: every data operation is allocated and      *)
(* written on its own.                                                     *)
(***************************************************************************)
\* A large write that passes over an UPSERT.
LargeWriteNextSkipsUpsert(t) ==
    /\ th[t].pc = "lw_next"
    /\ LET k == th[t].k
       IN  IF k > Len(th[t].wb)
           THEN /\ dir' = dir \cup LocalEntries(th[t].edit)
                /\ th' = [th EXCEPT ![t] = IdleTh]
                /\ last' = Result(t, "", "")
           ELSE /\ UNCHANGED <<dir, last>>
                /\ LET op == th[t].wb[k]
                   IN  IF op.type \in DataTypes
                       THEN th' = [th EXCEPT ![t].need = op.size,
                                             ![t].after = "lw_write",
                                             ![t].pc = "choose"]
                       ELSE IF op.type = "UPSERT"
                       THEN th' = [th EXCEPT ![t].k = k + 1]
                       ELSE th' = [th EXCEPT ![t].edit = Append(th[t].edit, NoDataRec(op)),
                                             ![t].k = k + 1]
    /\ UNCHANGED <<stats, roll_id, disk, blob_files, block_alignment_bytes, stale, nops, faults>>

\* lines 171-181 and 235-268: the next operation of the batch.
LargeWriteNext(t) ==
    /\ th[t].pc = "lw_next"
    /\ LET k == th[t].k
       IN  IF k > Len(th[t].wb)
           THEN /\ dir' = dir \cup LocalEntries(th[t].edit)
                /\ th' = [th EXCEPT ![t] = IdleTh]
                /\ last' = Result(t, "", "")
           ELSE /\ UNCHANGED dir
                /\ LET op == th[t].wb[k]
                   IN  IF op.type \in DataTypes
                       THEN /\ th' = [th EXCEPT ![t].need = op.size,
                                                ![t].after = "lw_write",
                                                ![t].pc = "choose"]
                            /\ UNCHANGED last
                       ELSE IF op.type = "UPSERT"
                       THEN Throw(t, "Logic", "UPSERT")
                       ELSE /\ th' = [th EXCEPT ![t].edit = Append(th[t].edit, NoDataRec(op)),
                                                ![t].k = k + 1]
                            /\ UNCHANGED last
    /\ UNCHANGED <<stats, roll_id, disk, blob_files, block_alignment_bytes, stale, nops, faults>>

\* A large write whose failed payload write rethrows without the release.
LargeWriteFlushKeeps(t) ==
    /\ th[t].pc = "lw_write"
    /\ blob_files' = getBlobFile(blob_files, th[t].blob_id)
    /\ LET op    == th[t].wb[th[t].k]
           bytes == Payload(op.page_id, op.size)
           entry == [file_id |-> th[t].blob_id, offset |-> th[t].offset,
                     size |-> op.size, padded_size |-> 0, checksum |-> CRC64(bytes),
                     field_offsets |-> FieldChecksums(bytes, op.offsets)]
           kind  == IF op.type = "PUT" THEN "put" ELSE "updateRemote"
       IN  \/ /\ disk' = fileWrite(disk, th[t].blob_id, th[t].offset, bytes)
              /\ th' = [th EXCEPT
                          ![t].edit = Append(th[t].edit, EditRec(kind, op.page_id, entry)),
                          ![t].k = th[t].k + 1, ![t].pc = "lw_next"]
              /\ UNCHANGED faults
           \/ /\ Fault
              /\ disk' = fileOpen(disk, th[t].blob_id)
              /\ th' = [th EXCEPT ![t].err = "Io", ![t].inject = "write",
                                  ![t].pc = "rethrow"]
    /\ UNCHANGED <<stats, roll_id, block_alignment_bytes, dir, stale, last, nops>>

\* lines 183-233: the entry of one operation and the write of its payload; a
\* failed write releases the allocation of this operation and rethrows.
LargeWriteFlush(t) ==
    /\ th[t].pc = "lw_write"
    /\ blob_files' = getBlobFile(blob_files, th[t].blob_id)
    /\ LET op    == th[t].wb[th[t].k]
           bytes == Payload(op.page_id, op.size)
           entry == [file_id |-> th[t].blob_id, offset |-> th[t].offset,
                     size |-> op.size, padded_size |-> 0, checksum |-> CRC64(bytes),
                     field_offsets |-> FieldChecksums(bytes, op.offsets)]
           kind  == IF op.type = "PUT" THEN "put" ELSE "updateRemote"
       IN  \/ /\ disk' = fileWrite(disk, th[t].blob_id, th[t].offset, bytes)
              /\ th' = [th EXCEPT
                          ![t].edit = Append(th[t].edit, EditRec(kind, op.page_id, entry)),
                          ![t].k = th[t].k + 1, ![t].pc = "lw_next"]
              /\ UNCHANGED faults
           \/ /\ Fault
              /\ disk' = fileOpen(disk, th[t].blob_id)
              /\ th' = [th EXCEPT
                          ![t].rel = [blob_id |-> th[t].blob_id, offset |-> th[t].offset,
                                      size |-> op.size],
                          ![t].err = "Io", ![t].inject = "write",
                          ![t].after = "rethrow", ![t].pc = "release"]
    /\ UNCHANGED <<stats, roll_id, block_alignment_bytes, dir, stale, last, nops>>

(***************************************************************************)
(* BlobStore::remove.                                                      *)
(***************************************************************************)
EntrySeqs(S, n) == {q \in SeqsUpTo(S, n) : Cardinality(Range(q)) = Len(q) /\ q # <<>>}

\* lines 483-488: the directory hands over entries it has dropped.
RemoveStart(t, del, run) ==
    /\ StartOK(t, run)
    /\ nops' = nops + 1
    /\ UNCHANGED faults
    /\ last' = NoLast
    /\ dir' = dir \ Range(del)
    /\ stale' = stale \ Range(del)
    /\ th' = [th EXCEPT ![t] = [IdleTh EXCEPT !.op = "remove", !.del = del, !.k = 1,
                                              !.pre = Snapshot(stats), !.pc = "rm_next"]]
    /\ UNCHANGED <<stats, roll_id, disk, blob_files, block_alignment_bytes>>

\* The release of the size of the payload alone, without its padding.
PosOfEntrySizeOnly(entry) ==
    [blob_id |-> entry.file_id, offset |-> entry.offset, size |-> entry.size]

\* line 497: the arguments of removePosFromStats for an entry.
PosOfEntry(entry) ==
    [blob_id |-> entry.file_id, offset |-> entry.offset, size |-> getTotalSize(entry)]

\* lines 486-504: the next entry; entries without data are skipped.
RemoveNext(t) ==
    /\ th[t].pc = "rm_next"
    /\ LET k == th[t].k
       IN  IF k > Len(th[t].del)
           THEN th' = [th EXCEPT ![t].pc = "rm_recalc"]
           ELSE LET entry == th[t].del[k].entry
                    upd   == th[t].blob_updated \cup {entry.file_id}
                IN  IF entry.size = 0
                    THEN th' = [th EXCEPT ![t].blob_updated = upd, ![t].k = k + 1]
                    ELSE th' = [th EXCEPT
                                  ![t].blob_updated = upd, ![t].k = k + 1,
                                  ![t].rel = PosOfEntry(entry),
                                  ![t].after = "rm_next", ![t].pc = "release"]
    /\ UNCHANGED <<stats, roll_id, disk, blob_files, block_alignment_bytes, dir, stale,
                   last, nops, faults>>

\* lines 506-528: recalculateCapacity, under its lock, on each updated blob
\* that still has a stat.
RemoveRecalc(t) ==
    /\ th[t].pc = "rm_recalc"
    /\ IF th[t].blob_updated = {}
       THEN /\ th' = [th EXCEPT ![t] = IdleTh]
            /\ last' = Result(t, "", "")
            /\ UNCHANGED stats
       ELSE LET b == SetMin(th[t].blob_updated)
            IN  /\ LockFree(b, t)
                /\ stats' = IF b \in BlobIds /\ stats[b].reg
                            THEN [stats EXCEPT ![b] = recalculateCapacity(stats[b])]
                            ELSE stats
                /\ th' = Released([th EXCEPT ![t].blob_updated = th[t].blob_updated \ {b}],
                                  t, b)
                /\ UNCHANGED last
    /\ UNCHANGED <<roll_id, disk, blob_files, block_alignment_bytes, dir, stale, nops, faults>>

(***************************************************************************)
(* BlobStore::getGCStats.                                                  *)
(***************************************************************************)
RECURSIVE SortedSeq(_)
SortedSeq(S) == IF S = {} THEN <<>> ELSE <<SetMin(S)>> \o SortedSeq(S \ {SetMin(S)})

\* lines 957-975: the copy of the registry; the failpoint
\* force_change_all_blobs_to_read_only turns every stat of it read-only.
GCStatsStart(t, failpoint, run) ==
    /\ StartOK(t, run)
    /\ RegistryFree(t)
    /\ nops' = nops + 1
    /\ UNCHANGED faults
    /\ last' = NoLast
    /\ LET ids == {b \in BlobIds : stats[b].reg}
       IN  /\ stats' = IF failpoint
                       THEN [b \in BlobIds |->
                               IF b \in ids THEN changeToReadOnly(stats[b]) ELSE stats[b]]
                       ELSE stats
           /\ th' = [th EXCEPT ![t] = [IdleTh EXCEPT !.op = "getGCStats",
                                                     !.snapshot = SortedSeq(ids),
                                                     !.k = 1, !.pc = "gs_next"]]
    /\ UNCHANGED <<roll_id, disk, blob_files, block_alignment_bytes, dir, stale>>

\* A getGCStats that cuts the blob down to its valid size, not to its used
\* boundary.
GCStatsOneCutToValid(stat, dsk, files, b) ==
    LET right_boundary == getUsedBoundary(stat.smap)
        opened == fileOpen(dsk, b)
    IN  IF stat.read_only \/ right_boundary = 0 \/ stat.sm_valid_size > right_boundary
        THEN [stat |-> stat, disk |-> dsk, files |-> files, gc |-> FALSE, err |-> ""]
        ELSE [stat |-> [stat EXCEPT !.sm_total_size = stat.sm_valid_size],
              disk |-> fileTruncate(opened, b, stat.sm_valid_size),
              files |-> getBlobFile(files, b), gc |-> FALSE, err |-> ""]

\* A threshold that a rate has to stay below.
NeedGcBelowRate(valid_size, right_boundary) == valid_size * 2 < right_boundary

\* lines 1011 and 1028: sm_valid_rate <= config.heavy_gc_valid_rate, the rate
\* being valid_size / right_boundary and the threshold one half.
NeedGc(valid_size, right_boundary) == valid_size * 2 <= right_boundary

\* A getGCStats that leaves every blob file as long as it is.
NeedTruncateNever(right_boundary, sm_total_size) == FALSE

\* line 1042: right_boundary != stat->sm_total_size
NeedTruncate(right_boundary, sm_total_size) == right_boundary # sm_total_size

\* A getGCStats without the branch for the empty blob.
BlobNeverEmpty(right_boundary) == FALSE

\* line 993: right_boundary == 0
BlobIsEmpty(right_boundary) == right_boundary = 0

\* A getGCStats that looks at read-only stats as at writable ones.
GCStatsOneNoSkip(stat, dsk, files, b) ==
    LET right_boundary == getUsedBoundary(stat.smap)
    IN  IF right_boundary = 0 \/ stat.sm_valid_size > right_boundary
        THEN [stat |-> stat, disk |-> dsk, files |-> files, gc |-> FALSE, err |-> ""]
        ELSE LET need == NeedGc(stat.sm_valid_size, right_boundary)
             IN  [stat |-> IF need THEN changeToReadOnly(stat) ELSE stat,
                  disk |-> dsk, files |-> files, gc |-> need, err |-> ""]

\* A getGCStats that cuts a blob file one byte below the used boundary.
GCStatsOneCutShort(stat, dsk, files, b) ==
    LET right_boundary == getUsedBoundary(stat.smap)
        opened == fileOpen(dsk, b)
    IN  IF stat.read_only \/ right_boundary = 0 \/ stat.sm_valid_size > right_boundary
           \/ right_boundary = stat.sm_total_size
        THEN [stat |-> stat, disk |-> dsk, files |-> files, gc |-> FALSE, err |-> ""]
        ELSE [stat |-> [stat EXCEPT !.sm_total_size = right_boundary],
              disk |-> fileTruncate(opened, b, right_boundary - 1),
              files |-> getBlobFile(files, b), gc |-> FALSE, err |-> ""]

\* lines 980-1052: one stat of the copy, under its lock.
GCStatsOne(stat, dsk, files, b) ==
    LET right_boundary == getUsedBoundary(stat.smap)
        opened == fileOpen(dsk, b)
    IN  IF stat.read_only
        THEN [stat |-> stat, disk |-> dsk, files |-> files, gc |-> FALSE, err |-> ""]
        ELSE IF BlobIsEmpty(right_boundary)
        THEN IF stat.sm_valid_size # 0
             THEN [stat |-> stat, disk |-> dsk, files |-> files, gc |-> FALSE, err |-> "Logic"]
             ELSE [stat |-> [stat EXCEPT !.sm_total_size = 0],
                   disk |-> fileTruncate(opened, b, 0),
                   files |-> getBlobFile(files, b), gc |-> FALSE, err |-> ""]
        ELSE IF stat.sm_valid_size > right_boundary
        THEN [stat |-> stat, disk |-> dsk, files |-> files, gc |-> FALSE, err |-> ""]
        ELSE LET need == NeedGc(stat.sm_valid_size, right_boundary)
                 st1  == IF need THEN changeToReadOnly(stat) ELSE stat
             IN  IF NeedTruncate(right_boundary, stat.sm_total_size)
                 THEN [stat |-> [st1 EXCEPT !.sm_total_size = right_boundary],
                       disk |-> fileTruncate(opened, b, right_boundary),
                       files |-> getBlobFile(files, b), gc |-> need, err |-> ""]
                 ELSE [stat |-> st1, disk |-> dsk, files |-> files, gc |-> need, err |-> ""]

GCStatsNext(t) ==
    /\ th[t].pc = "gs_next"
    /\ LET k == th[t].k
       IN  IF k > Len(th[t].snapshot)
           THEN /\ th' = [th EXCEPT ![t] = IdleTh]
                /\ last' = Result(t, "", "")
                /\ UNCHANGED <<stats, disk, blob_files>>
           ELSE LET b   == th[t].snapshot[k]
                    res == GCStatsOne(stats[b], disk, blob_files, b)
                IN  /\ stats[b].read_only \/ LockFree(b, t)
                    /\ IF res.err # ""
                       THEN /\ th' = Released([th EXCEPT ![t] = IdleTh], t, b)
                            /\ last' = Result(t, res.err, "getGCStats")
                            /\ UNCHANGED <<stats, disk, blob_files>>
                       ELSE /\ stats' = [stats EXCEPT ![b] = res.stat]
                            /\ disk' = res.disk
                            /\ blob_files' = res.files
                            /\ th' = Released([th EXCEPT
                                        ![t].k = k + 1,
                                        ![t].blob_need_gc =
                                            IF res.gc THEN Append(th[t].blob_need_gc, b)
                                            ELSE th[t].blob_need_gc,
                                        ![t].examined =
                                            IF /\ ~stats[b].read_only
                                               /\ stats[b].smap # {}
                                               /\ stats[b].sm_valid_size
                                                      <= getUsedBoundary(stats[b].smap)
                                            THEN th[t].examined \cup
                                                   {[blob_id |-> b,
                                                     sm_total_size |-> stats[b].sm_total_size]}
                                            ELSE th[t].examined,
                                        ![t].zeroed =
                                            IF ~stats[b].read_only /\ stats[b].smap = {}
                                            THEN th[t].zeroed \cup {b}
                                            ELSE th[t].zeroed], t, b)
                            /\ UNCHANGED last
    /\ UNCHANGED <<roll_id, block_alignment_bytes, dir, stale, nops, faults>>

(***************************************************************************)
(* BlobStore::gc.                                                          *)
(***************************************************************************)
\* entries_need_gc is a map from the source blob id to its live entries, so
\* the entries are met in the order of their source blob.
GcInputs(live) ==
    {q \in SeqsUpTo(live, MaxGcEntries) :
        /\ Cardinality(Range(q)) = Len(q)
        /\ \A i \in DOMAIN q : stats[q[i].entry.file_id].read_only
        /\ \A i, j \in DOMAIN q : i < j => q[i].entry.file_id <= q[j].entry.file_id}

RECURSIVE EntrySizeSum(_)
EntrySizeSum(q) == IF q = <<>> THEN 0 ELSE Head(q).entry.size + EntrySizeSum(Tail(q))

\* A buffer that never grows above file_limit_size.
GcAllocSizeCapped(ents, total_page_size) == Min2(total_page_size, FileLimit)

\* lines 1112-1133
GcAllocSize(ents, total_page_size) ==
    IF total_page_size > FileLimit
    THEN Max2(FileLimit, SetMax({0} \cup {ents[i].entry.size : i \in DOMAIN ents}))
    ELSE total_page_size

\* A gc that goes on whatever the total size.
GcNeverRefuses(total_page_size) == FALSE

\* line 1070
GcNothingToDo(total_page_size) == total_page_size = 0

\* lines 1067-1146: the call, up to the request of the first region.
GcStart(t, ents, run) ==
    /\ StartOK(t, run)
    /\ nops' = nops + 1
    /\ UNCHANGED faults
    /\ LET total_page_size == EntrySizeSum(ents)
           alloc_size == GcAllocSize(ents, total_page_size)
       IN  IF GcNothingToDo(total_page_size)
           THEN /\ last' = [NoLast EXCEPT !.op = "gc", !.err = "Logic", !.at = "total",
                                          !.pre = Snapshot(stats)]
                /\ UNCHANGED th
           ELSE /\ last' = NoLast
                /\ th' = [th EXCEPT ![t] =
                            [IdleTh EXCEPT !.op = "gc", !.ents = ents, !.k = 1,
                                           !.total = total_page_size,
                                           !.alloc_size = alloc_size,
                                           !.remaining = total_page_size - alloc_size,
                                           !.need = alloc_size, !.pre = Snapshot(stats),
                                           !.after = "gc_copy", !.pc = "choose"]]
    /\ UNCHANGED <<stats, roll_id, disk, blob_files, block_alignment_bytes, dir, stale>>

\* The directory applies the edit of a gc: every migrated entry replaces its
\* source entry, which becomes stale.
GcApply(t) ==
    LET ents == th[t].ents
        idx  == DOMAIN ents
        new(i) == DirEnt(ents[i].page_id, th[t].edit[i].entry)
    IN  /\ dir' = (dir \ Range(ents)) \cup {new(i) : i \in {j \in idx : ents[j] \in dir}}
        /\ stale' = stale \cup (Range(ents) \cap dir)
                          \cup {new(i) : i \in {j \in idx : ents[j] \notin dir}}

\* A new entry that keeps the padding of the old one.
GcNewEntryWithPadding(entry, blob_id, offset) ==
    [entry EXCEPT !.file_id = blob_id, !.offset = offset]

\* lines 1192-1195: the entry of the migrated page.
GcNewEntry(entry, blob_id, offset) ==
    [entry EXCEPT !.file_id = blob_id, !.offset = offset, !.padded_size = 0]

\* A release in the blob that the entry at hand comes from.
GcUnusedSpanOfSource(frame) ==
    [blob_id |-> frame.ents[frame.k].entry.file_id, offset |-> frame.offset_in_data,
     size |-> frame.alloc_size - frame.offset_in_data]

\* line 1168: the arguments of removePosFromStats at a roll-over.
GcUnusedSpan(frame) ==
    [blob_id |-> frame.blob_id, offset |-> frame.offset_in_data,
     size |-> frame.alloc_size - frame.offset_in_data]

\* lines 1153-1202: one entry of the input.  An entry that does not fit the
\* rest of the region makes the region roll over; otherwise the entry is read
\* from its source blob into the buffer.
GcCopy(t) ==
    /\ th[t].pc = "gc_copy"
    /\ LET k == th[t].k
       IN  IF k > Len(th[t].ents)
           THEN \* lines 1204-1210
                IF th[t].offset_in_data # 0
                THEN /\ th' = [th EXCEPT ![t].pc = "gc_final"]
                     /\ UNCHANGED <<disk, blob_files, dir, stale, last, faults>>
                ELSE /\ GcApply(t)
                     /\ th' = [th EXCEPT ![t] = IdleTh]
                     /\ last' = Result(t, "", "")
                     /\ UNCHANGED <<disk, blob_files, faults>>
           ELSE LET src   == th[t].ents[k]
                    entry == src.entry
                IN  IF th[t].offset_in_data + entry.size > th[t].alloc_size
                    THEN \* lines 1163-1171.  assert(file_offset_begin == 0) ends
                         \* the process in a build with assertions and is no
                         \* code in a build without them.
                         \/ /\ th[t].offset # 0
                            /\ th' = [u \in Threads |-> IdleTh]
                            /\ last' = Result(t, "Abort", "assert")
                            /\ UNCHANGED <<disk, blob_files, dir, stale, faults>>
                         \/ /\ IF th[t].offset_in_data # th[t].alloc_size
                               THEN th' = [th EXCEPT
                                             ![t].rel = GcUnusedSpan(th[t]),
                                             ![t].after = "gc_roll", ![t].pc = "release"]
                               ELSE th' = [th EXCEPT ![t].pc = "gc_roll"]
                            /\ UNCHANGED <<disk, blob_files, dir, stale, last, faults>>
                    ELSE \* lines 1187-1200
                         /\ blob_files' = getBlobFile(blob_files, entry.file_id)
                         /\ disk' = fileOpen(disk, entry.file_id)
                         /\ UNCHANGED <<dir, stale>>
                         /\ \/ /\ fileCanRead(disk, entry.file_id, entry.offset, entry.size)
                               /\ LET new_entry == GcNewEntry(entry, th[t].blob_id,
                                                              th[t].offset
                                                              + th[t].offset_in_data)
                                  IN  th' = [th EXCEPT
                                        ![t].data_buf = th[t].data_buf \o
                                            fileRead(disk, entry.file_id, entry.offset,
                                                     entry.size),
                                        ![t].offset_in_data = th[t].offset_in_data
                                                              + entry.size,
                                        ![t].edit = Append(th[t].edit,
                                            EditRec("upsert", src.page_id, new_entry)),
                                        ![t].k = k + 1]
                               /\ UNCHANGED <<last, faults>>
                            \/ /\ Fault
                               /\ Throw(t, "Io", "read")
    /\ UNCHANGED <<stats, roll_id, block_alignment_bytes, nops>>

\* lines 1076-1110 (write_blob): the filled part of the buffer is written to
\* the current region, which is first noted in written_blobs.
\* lines 1171-1183: after the write the buffer is reused for the next region.
GcRoll(t) ==
    /\ th[t].pc = "gc_roll"
    /\ blob_files' = getBlobFile(blob_files, th[t].blob_id)
    /\ LET remaining == th[t].remaining + (th[t].alloc_size - th[t].offset_in_data)
           next_alloc_size == Min2(remaining, th[t].alloc_size)
           written == Append(th[t].written_blobs,
                             [blob_id |-> th[t].blob_id, offset |-> th[t].offset,
                              size |-> th[t].offset_in_data])
       IN  \/ /\ disk' = fileWrite(disk, th[t].blob_id, th[t].offset, th[t].data_buf)
              /\ th' = [th EXCEPT
                          ![t].written_blobs = written,
                          ![t].data_buf = <<>>, ![t].offset_in_data = 0,
                          ![t].remaining = remaining - next_alloc_size,
                          ![t].need = next_alloc_size,
                          ![t].after = "gc_copy", ![t].pc = "choose"]
              /\ UNCHANGED faults
           \/ /\ Fault
              /\ disk' = fileOpen(disk, th[t].blob_id)
              /\ th' = [th EXCEPT ![t].written_blobs = written,
                                  ![t].err = "Io", ![t].inject = "write",
                                  ![t].revert = 1, ![t].pc = "gc_revert"]
    /\ UNCHANGED <<stats, roll_id, block_alignment_bytes, dir, stale, last, nops>>

\* lines 1204-1210: the write of what is left in the buffer, and the return.
GcFinal(t) ==
    /\ th[t].pc = "gc_final"
    /\ blob_files' = getBlobFile(blob_files, th[t].blob_id)
    /\ LET written == Append(th[t].written_blobs,
                             [blob_id |-> th[t].blob_id, offset |-> th[t].offset,
                              size |-> th[t].offset_in_data])
       IN  \/ /\ disk' = fileWrite(disk, th[t].blob_id, th[t].offset, th[t].data_buf)
              /\ GcApply(t)
              /\ th' = [th EXCEPT ![t] = IdleTh]
              /\ last' = Result(t, "", "")
              /\ UNCHANGED faults
           \/ /\ Fault
              /\ disk' = fileOpen(disk, th[t].blob_id)
              /\ th' = [th EXCEPT ![t].written_blobs = written,
                                  ![t].err = "Io", ![t].inject = "write",
                                  ![t].revert = 1, ![t].pc = "gc_revert"]
              /\ UNCHANGED <<dir, stale, last>>
    /\ UNCHANGED <<stats, roll_id, block_alignment_bytes, nops>>

\* lines 1095-1109: the catch block of write_blob releases the regions noted
\* in written_blobs, one after the other, and rethrows.
GcRevert(t) ==
    /\ th[t].pc = "gc_revert"
    /\ IF th[t].revert > Len(th[t].written_blobs)
       THEN th' = [th EXCEPT ![t].pc = "rethrow"]
       ELSE th' = [th EXCEPT ![t].rel = th[t].written_blobs[th[t].revert],
                             ![t].revert = th[t].revert + 1,
                             ![t].after = "gc_revert", ![t].pc = "release"]
    /\ UNCHANGED <<stats, roll_id, disk, blob_files, block_alignment_bytes, dir, stale,
                   last, nops, faults>>

(***************************************************************************)
(* BlobStore::read(PageIdAndEntry).                                        *)
(***************************************************************************)
\* A read that hands out the bytes without a look at the checksum.
ReadPageUnchecked(dsk, entry) ==
    IF entry.file_id = INVALID_BLOBFILE_ID \/ entry.size = 0
    THEN [err |-> "", data |-> <<>>]
    ELSE IF ~fileCanRead(dsk, entry.file_id, entry.offset, entry.size)
    THEN [err |-> "Io", data |-> <<>>]
    ELSE [err |-> "", data |-> fileRead(dsk, entry.file_id, entry.offset, entry.size)]

\* lines 879-935: the page of an entry, or the error of the read.
ReadPage(dsk, entry) ==
    IF entry.file_id = INVALID_BLOBFILE_ID \/ entry.size = 0
    THEN [err |-> "", data |-> <<>>]
    ELSE IF ~fileCanRead(dsk, entry.file_id, entry.offset, entry.size)
    THEN [err |-> "Io", data |-> <<>>]
    ELSE LET data == fileRead(dsk, entry.file_id, entry.offset, entry.size)
         IN  IF CRC64(data) # entry.checksum
             THEN [err |-> "Checksum", data |-> <<>>]
             ELSE [err |-> "", data |-> data]

Read(t, ent, run) ==
    /\ StartOK(t, run)
    /\ nops' = nops + 1
    /\ UNCHANGED faults
    /\ blob_files' = getBlobFile(blob_files, ent.entry.file_id)
    /\ disk' = fileOpen(disk, ent.entry.file_id)
    /\ LET page == ReadPage(disk, ent.entry)
       IN  last' = [NoLast EXCEPT !.op = "read", !.err = page.err, !.data = page.data,
                                  !.arg = <<ent>>]
    /\ UNCHANGED <<stats, roll_id, block_alignment_bytes, dir, stale, th>>

(***************************************************************************)
(* BlobStore::read(PageIdAndEntries) and BlobStore::read(FieldReadInfos).  *)
(* A page of the result is [page_id, data, field_offsets]; field indexes   *)
(* count from 0 as in the code.                                            *)
(***************************************************************************)
Page(page_id, data, field_offsets) ==
    [page_id |-> page_id, data |-> data, field_offsets |-> field_offsets]

\* lines 928-932 (and 847-851): the start of every field of the entry.
EntryFieldOffsets(entry) ==
    {<<i - 1, entry.field_offsets[i][1]>> : i \in DOMAIN entry.field_offsets}

\* std::sort by offset in file (lines 642-645, 787-789).
SortByOffset(reqs) == SortSeq(reqs, LAMBDA a, b : a.entry.offset < b.entry.offset)

\* The buffer of a batch read before anything is read into it.
BlankBuffer(buf_size) == [i \in 1..buf_size |-> 0]

\* The bytes of a buffer from pos on: std::string_view(pos, size).
BufferView(buf, pos, size) == [i \in 1..size |-> buf[pos + i]]

\* A batch read that reads every page into the start of the buffer.
PosStays(pos, size) == pos

\* line 861: pos += entry.size
NextPos(pos, size) == pos + size

\* lines 820-862: the entries in turn, each read into the buffer at pos; the
\* first failure ends the read.  A slot is the part of the buffer that the
\* page of an entry views.
RECURSIVE ReadPagesFrom(_, _, _, _)
ReadPagesFrom(dsk, reqs, pos, buf) ==
    IF reqs = <<>> THEN [err |-> "", buf |-> buf, slots |-> {}, pos |-> pos]
    ELSE LET entry == Head(reqs).entry
             failed(err) == [err |-> err, buf |-> buf, slots |-> {}, pos |-> pos]
         IN  IF ~fileCanRead(dsk, entry.file_id, entry.offset, entry.size)
             THEN failed("Io")
             ELSE LET data == fileRead(dsk, entry.file_id, entry.offset, entry.size)
                      read == [i \in DOMAIN buf |->
                                  IF i > pos /\ i <= pos + entry.size
                                  THEN data[i - pos] ELSE buf[i]]
                      rest == ReadPagesFrom(dsk, Tail(reqs), NextPos(pos, entry.size), read)
                  IN  IF entry.size # 0 /\ CRC64(data) # entry.checksum
                      THEN failed("Checksum")
                      ELSE IF rest.err # "" THEN rest
                      ELSE [rest EXCEPT !.slots = @ \cup {[page_id |-> Head(reqs).page_id,
                                                           entry |-> entry, pos |-> pos,
                                                           size |-> entry.size]}]

\* lines 777-876
ReadPages(dsk, reqs) ==
    IF reqs = <<>> THEN [err |-> "", pages |-> {}]
    ELSE LET buf_size == SumSizes([i \in DOMAIN reqs |-> reqs[i].entry])
         IN  IF buf_size = 0
             THEN [err |-> "", pages |-> {Page(reqs[i].page_id, <<>>, {}) : i \in DOMAIN reqs}]
             ELSE LET res == ReadPagesFrom(dsk, SortByOffset(reqs), 0, BlankBuffer(buf_size))
                  IN  IF res.err # "" THEN [err |-> res.err, pages |-> {}]
                      ELSE IF res.pos # buf_size THEN [err |-> "Logic", pages |-> {}]
                      ELSE [err |-> "",
                            pages |-> {Page(slot.page_id,
                                            BufferView(res.buf, slot.pos, slot.size),
                                            EntryFieldOffsets(slot.entry)) : slot \in res.slots}]

\* PageEntryV3::getFieldOffsets: the bytes [begin, end) of field `index`.
getFieldOffsets(entry, index) ==
    [begin |-> entry.field_offsets[index + 1][1],
     end   |-> IF index + 1 = Len(entry.field_offsets) THEN entry.size
               ELSE entry.field_offsets[index + 2][1]]

getFieldSize(entry, index) ==
    getFieldOffsets(entry, index).end - getFieldOffsets(entry, index).begin

\* lines 708-743: the fields of one entry, in the order given; read_size is
\* what was read of this entry so far.
RECURSIVE ReadFieldsOfEntry(_, _, _, _)
ReadFieldsOfEntry(dsk, entry, fields, read_size) ==
    IF fields = <<>> THEN [err |-> "", data |-> <<>>, field_offsets |-> {}]
    ELSE LET field_index == Head(fields)
             fo   == getFieldOffsets(entry, field_index)
             size_to_read == fo.end - fo.begin
         IN  IF ~fileCanRead(dsk, entry.file_id, entry.offset + fo.begin, size_to_read)
             THEN [err |-> "Io", data |-> <<>>, field_offsets |-> {}]
             ELSE LET data == fileRead(dsk, entry.file_id, entry.offset + fo.begin,
                                       size_to_read)
                      rest == ReadFieldsOfEntry(dsk, entry, Tail(fields),
                                                read_size + size_to_read)
                  IN  IF entry.size # 0
                         /\ CRC64(data) # entry.field_offsets[field_index + 1][2]
                      THEN [err |-> "Checksum", data |-> <<>>, field_offsets |-> {}]
                      ELSE IF rest.err # "" THEN rest
                      ELSE [err |-> "", data |-> data \o rest.data,
                            field_offsets |->
                                {<<field_index, read_size>>}
                                \cup {fo2 \in rest.field_offsets : fo2[1] # field_index}]

\* The requests in turn, with the fields of each in the order of the caller.
RECURSIVE ReadFieldsFromUnsorted(_, _)
ReadFieldsFromUnsorted(dsk, reqs) ==
    IF reqs = <<>> THEN [err |-> "", pages |-> {}]
    ELSE LET one == ReadFieldsOfEntry(dsk, Head(reqs).entry, Head(reqs).fields, 0)
             rest == ReadFieldsFromUnsorted(dsk, Tail(reqs))
         IN  IF one.err # "" THEN [err |-> one.err, pages |-> {}]
             ELSE IF rest.err # "" THEN rest
             ELSE [err |-> "",
                   pages |-> {Page(Head(reqs).page_id, one.data, one.field_offsets)}
                             \cup rest.pages]

\* lines 704-754: the requests in turn.
RECURSIVE ReadFieldsFrom(_, _)
ReadFieldsFrom(dsk, reqs) ==
    IF reqs = <<>> THEN [err |-> "", pages |-> {}]
    ELSE LET one == ReadFieldsOfEntry(dsk, Head(reqs).entry,
                                      SortSeq(Head(reqs).fields, <), 0)
             rest == ReadFieldsFrom(dsk, Tail(reqs))
         IN  IF one.err # "" THEN [err |-> one.err, pages |-> {}]
             ELSE IF rest.err # "" THEN rest
             ELSE [err |-> "",
                   pages |-> {Page(Head(reqs).page_id, one.data, one.field_offsets)}
                             \cup rest.pages]

RECURSIVE FieldsBufSize(_, _)
FieldsBufSize(entry, fields) ==
    IF fields = <<>> THEN 0
    ELSE getFieldSize(entry, Head(fields)) + FieldsBufSize(entry, Tail(fields))

RECURSIVE ReadFieldsBufSize(_)
ReadFieldsBufSize(reqs) ==
    IF reqs = <<>> THEN 0
    ELSE FieldsBufSize(Head(reqs).entry, Head(reqs).fields) + ReadFieldsBufSize(Tail(reqs))

\* lines 632-773.  With nothing to read, a build with assertions throws and a
\* release build returns pages without data (lines 662-693).
ReadFields(dsk, reqs, debug_build) ==
    IF reqs = <<>> THEN [err |-> "", pages |-> {}]
    ELSE IF ReadFieldsBufSize(reqs) = 0
    THEN IF debug_build THEN [err |-> "Logic", pages |-> {}]
         ELSE [err |-> "", pages |-> {Page(reqs[i].page_id, <<>>, {}) : i \in DOMAIN reqs}]
    ELSE ReadFieldsFrom(dsk, SortByOffset(reqs))

\* The three shapes of read as calls: the result is left in `last`.
ReadReturn(op, reqs, res) ==
    /\ nops' = nops + 1
    /\ UNCHANGED faults
    /\ blob_files' = blob_files \cup {reqs[i].entry.file_id : i \in DOMAIN reqs}
    /\ last' = [NoLast EXCEPT !.op = op, !.err = res.err, !.pages = res.pages, !.arg = reqs]
    /\ UNCHANGED <<stats, roll_id, disk, block_alignment_bytes, dir, stale, th>>

ReadPagesStart(t, reqs, run) ==
    /\ StartOK(t, run)
    /\ ReadReturn("readPages", reqs, ReadPages(disk, reqs))

ReadFieldsStart(t, reqs, debug_build, run) ==
    /\ StartOK(t, run)
    /\ ReadReturn("readFields", reqs, ReadFields(disk, reqs, debug_build))

\* Lists of distinct field indexes of an entry, in any order.
FieldLists(entry) ==
    {q \in SeqsUpTo(0..(Len(entry.field_offsets) - 1), Len(entry.field_offsets)) :
        Cardinality(Range(q)) = Len(q)}

FieldRequestsOf(ent) ==
    {[page_id |-> ent.page_id, entry |-> ent.entry, fields |-> f] : f \in FieldLists(ent.entry)}

FieldRequests(live) ==
    {q \in SeqsUpTo(UNION {FieldRequestsOf(ent) : ent \in live}, MaxReadBatch) :
        /\ q # <<>>
        /\ \A i, j \in DOMAIN q : i # j => q[i].page_id # q[j].page_id}

\* A byte of a blob file changes behind the back of the store.
Corrupt ==
    /\ \A t \in Threads : th[t].pc = "idle"
    /\ nops < MaxReadOps
    /\ Fault
    /\ \E b \in BlobIds : \E i \in DOMAIN disk[b].data :
           disk' = [disk EXCEPT ![b].data[i] = (@ % 3) + 1]
    /\ last' = [NoLast EXCEPT !.op = "corrupt"]
    /\ UNCHANGED <<stats, roll_id, blob_files, block_alignment_bytes, dir, stale, th, nops>>

(***************************************************************************)
(* Restart: a new BlobStore over the files on disk.  registerPaths gives   *)
(* every blob file a stat, and the directory restores its live entries     *)
(* into the stats.                                                         *)
(***************************************************************************)
\* lines 84-117
registerPaths(dsk) ==
    [b \in BlobIds |->
        IF dsk[b].exists THEN NewStat(Max2(Len(dsk[b].data), FileLimit)) ELSE NoStat]

\* BlobStats::restoreByEntry, for all live entries, and BlobStats::restore.
RECURSIVE restoreEntries(_, _)
restoreEntries(sts, live) ==
    IF live = {} THEN [b \in BlobIds |-> IF sts[b].reg THEN recalculateCapacity(sts[b])
                                         ELSE sts[b]]
    ELSE LET e  == CHOOSE x \in live : TRUE
             b  == e.entry.file_id
             st == sts[b]
             st2 == [st EXCEPT
                       !.smap = st.smap \cup Cells(e.entry.offset, getTotalSize(e.entry)),
                       !.sm_valid_size = st.sm_valid_size + getTotalSize(e.entry),
                       !.sm_total_size = Max2(st.sm_total_size,
                                              e.entry.offset + getTotalSize(e.entry)),
                       !.cap = Max2(st.cap, e.entry.offset + getTotalSize(e.entry))]
         IN  restoreEntries(IF st.reg THEN [sts EXCEPT ![b] = st2] ELSE sts, live \ {e})

Restart(run) ==
    /\ \A t \in Threads : th[t].pc = "idle"
    /\ nops < run.ops
    /\ nops' = nops + 1
    /\ UNCHANGED faults
    /\ blob_files # {} \/ last.err = "Abort"
    /\ blob_files' = {}
    /\ stats' = restoreEntries(registerPaths(disk), dir)
    /\ roll_id' = SetMax({0} \cup {b \in BlobIds : disk[b].exists}) + 1
    /\ stale' = {}
    /\ last' = [NoLast EXCEPT !.op = "restart"]
    /\ UNCHANGED <<disk, block_alignment_bytes, dir, th>>

(***************************************************************************)
(* The specifications.                                                     *)
(***************************************************************************)
InitWith(align) ==
    /\ stats = [b \in BlobIds |-> NoStat]
    /\ roll_id = 1
    /\ disk = [b \in BlobIds |-> NoFile]
    /\ blob_files = {}
    /\ block_alignment_bytes = align
    /\ dir = {}
    /\ stale = {}
    /\ th = [t \in Threads |-> IdleTh]
    /\ last = NoLast
    /\ nops = 0
    /\ faults = 0

Init == InitWith(0)

WriteCall(batches, run) == \E wb \in batches : WriteStart("w", wb, run)
ReadCall(run) == \E ent \in dir \cup stale : Read("w", ent, run)
RemoveCall(run) == \E del \in EntrySeqs(dir \cup stale, MaxBatch) : RemoveStart("r", del, run)
GCStatsCall(failpoints, run) == \E failpoint \in failpoints : GCStatsStart("g", failpoint, run)
GcCall(run) == \E ents \in GcInputs(dir) : GcStart("g", ents, run)

PosStep ==
    \/ \E t \in {"w", "g"} : GetPosChoose(t)
    \/ \E t \in {"w", "g"} : GetPosAlloc(t)
    \/ \E t \in Threads : RemovePosRelease(t)
    \/ \E t \in Threads : RemovePosErase(t)
    \/ \E t \in {"w", "g"} : Rethrow(t)

WriteStep ==
    \/ WriteBuild("w")
    \/ WriteFlush("w")
    \/ LargeWriteNext("w")
    \/ LargeWriteFlush("w")

RemoveStep ==
    \/ RemoveNext("r")
    \/ RemoveRecalc("r")

GcStep ==
    \/ GCStatsNext("g")
    \/ GcCopy("g")
    \/ GcRoll("g")
    \/ GcFinal("g")
    \/ GcRevert("g")

\* The store through its life, one call at a time.
Next ==
    \/ WriteCall(PutBatches, Sequential)
    \/ ReadCall(Sequential)
    \/ RemoveCall(Sequential)
    \/ GCStatsCall(BOOLEAN, Sequential)
    \/ GcCall(Sequential)
    \/ Restart(Sequential)
    \/ PosStep
    \/ WriteStep
    \/ RemoveStep
    \/ GcStep

Spec == Init /\ [][Next]_vars

\* Calls of write that overlap with remove, getGCStats and gc; the failpoint
\* is off, and the batches stay below file_limit_size.
NextConc ==
    \/ WriteCall(SmallPutBatches, Overlapped)
    \/ RemoveCall(Overlapped)
    \/ GCStatsCall({FALSE}, Overlapped)
    \/ GcCall(Overlapped)
    \/ PosStep
    \/ WriteBuild("w")
    \/ WriteFlush("w")
    \/ RemoveStep
    \/ GCStatsNext("g")
    \/ GcCopy("g")
    \/ GcFinal("g")
    \/ GcRevert("g")

SpecConc == Init /\ [][NextConc]_vars

\* A write of every kind of batch, with and without alignment, to a store
\* that earlier batches of PUTs have filled.
InitWrite == \E align \in {0, FileLimit} : InitWith(align)

NextWrite ==
    \/ WriteCall(IF nops + 1 < MaxWriteOps THEN PutBatches ELSE WriteBatches, WritesOnly)
    \/ GetPosChoose("w")
    \/ GetPosAlloc("w")
    \/ RemovePosRelease("w")
    \/ Rethrow("w")
    \/ WriteStep

SpecWrite == InitWrite /\ [][NextWrite]_vars

\* A write of small pages, then a write of any batch or removes; a remove is
\* handed entries of the directory, the entries without payload bytes of the
\* write before it included.
NextRemove ==
    \/ nops = 0 /\ WriteCall(SmallPutBatches, Sequential)
    \/ nops = 1 /\ WriteCall(WriteBatches, Sequential)
    \/ /\ nops >= 1
       /\ \E del \in EntrySeqs(dir \cup stale \cup EmptyEntries(last.edit), MaxBatch) :
              RemoveStart("r", del, Sequential)
    \/ GetPosChoose("w")
    \/ GetPosAlloc("w")
    \/ \E t \in {"w", "r"} : RemovePosRelease(t)
    \/ Rethrow("w")
    \/ WriteStep
    \/ RemoveStep

SpecRemove == InitWrite /\ [][NextRemove]_vars

\* A write of pages with fields, with or without alignment; the failpoint
\* turns the blobs read-only and a gc migrates live entries.
NextGcEdit ==
    \/ nops = 0 /\ WriteCall(FieldBatches, Sequential)
    \/ nops = 1 /\ GCStatsCall({TRUE}, Sequential)
    \/ nops = 2 /\ GcCall(Sequential)
    \/ \E t \in {"w", "g"} : GetPosChoose(t)
    \/ \E t \in {"w", "g"} : GetPosAlloc(t)
    \/ \E t \in {"w", "g"} : RemovePosRelease(t)
    \/ \E t \in {"w", "g"} : Rethrow(t)
    \/ WriteStep
    \/ GCStatsNext("g")
    \/ GcCopy("g")
    \/ GcRoll("g")
    \/ GcFinal("g")
    \/ GcRevert("g")

SpecGcEdit == InitWrite /\ [][NextGcEdit]_vars

\* A write of pages with fields, then a read of one of the three shapes; a
\* byte of a blob file may change in between.
ReadRun == [ops |-> MaxReadOps, seq |-> MaxReadOps]

NextRead ==
    \/ nops = 0 /\ WriteCall(FieldBatches, ReadRun)
    \/ \E ent \in dir : Read("r", ent, ReadRun)
    \/ \E reqs \in EntrySeqs(dir, MaxReadBatch) : ReadPagesStart("r", reqs, ReadRun)
    \/ \E reqs \in FieldRequests(dir) : \E debug_build \in BOOLEAN :
           ReadFieldsStart("r", reqs, debug_build, ReadRun)
    \/ Corrupt
    \/ GetPosChoose("w")
    \/ GetPosAlloc("w")
    \/ RemovePosRelease("w")
    \/ Rethrow("w")
    \/ WriteStep

SpecRead == Init /\ [][NextRead]_vars

\* One run of calls given by page ids: a gc whose first destination region
\* does not start at the head of its blob.
Call(op, wb, pages, failpoint) ==
    [op |-> op, wb |-> wb, pages |-> pages, failpoint |-> failpoint]

GcTailCalls ==
    << Call("write", <<WriteOp("PUT", 3, 8)>>, <<>>, FALSE),
       Call("remove", <<>>, <<3>>, FALSE),
       Call("write", <<WriteOp("PUT", 6, 4)>>, <<>>, FALSE),
       Call("write", <<WriteOp("PUT", 2, 1), WriteOp("PUT", 1, 3)>>, <<>>, FALSE),
       Call("remove", <<>>, <<6>>, FALSE),
       Call("getGCStats", <<>>, <<>>, FALSE),
       Call("write", <<WriteOp("PUT", 7, 8)>>, <<>>, FALSE),
       Call("remove", <<>>, <<7>>, FALSE),
       Call("write", <<WriteOp("PUT", 4, 1), WriteOp("PUT", 5, 1)>>, <<>>, FALSE),
       Call("remove", <<>>, <<4>>, FALSE),
       Call("gc", <<>>, <<2, 1>>, FALSE),
       Call("removeStale", <<>>, <<>>, FALSE) >>

EntryOfPage(p) == CHOOSE e \in dir : e.page_id = p

ScriptCall(calls, seq) ==
    /\ nops < Len(calls)
    /\ LET c   == calls[nops + 1]
           run == [ops |-> Len(calls), seq |-> seq]
           ents == [i \in DOMAIN c.pages |-> EntryOfPage(c.pages[i])]
       IN  /\ \A i \in DOMAIN c.pages : \E e \in dir : e.page_id = c.pages[i]
           /\ CASE c.op = "write"      -> WriteStart("w", c.wb, run)
                [] c.op = "remove"     -> RemoveStart("r", ents, run)
                [] c.op = "removeStale" ->
                       \E del \in EntrySeqs(stale, Cardinality(stale)) :
                           Len(del) = Cardinality(stale) /\ RemoveStart("r", del, run)
                [] c.op = "getGCStats" -> GCStatsStart("g", c.failpoint, run)
                [] c.op = "restart"    -> Restart(run)
                [] c.op = "gc"         -> GcStart("g", ents, run)

NextGcTail ==
    \/ ScriptCall(GcTailCalls, Len(GcTailCalls))
    \/ PosStep
    \/ WriteStep
    \/ RemoveStep
    \/ GcStep

SpecGcTail == Init /\ [][NextGcTail]_vars

\* One run of calls of which the last three overlap: a getGCStats, a write
\* and the remove of the last entry of a blob.
EraseRaceCalls ==
    << Call("write", <<WriteOp("PUT", 1, 1), WriteOp("PUT", 2, 1)>>, <<>>, FALSE),
       Call("remove", <<>>, <<1>>, FALSE),
       Call("getGCStats", <<>>, <<>>, FALSE),
       Call("write", <<WriteOp("PUT", 3, 1)>>, <<>>, FALSE),
       Call("remove", <<>>, <<2>>, FALSE) >>

NextEraseRace ==
    \/ ScriptCall(EraseRaceCalls, SeqPrefix)
    \/ PosStep
    \/ WriteBuild("w")
    \/ WriteFlush("w")
    \/ RemoveStep
    \/ GCStatsNext("g")

SpecEraseRace == Init /\ [][NextEraseRace]_vars

\* One run of calls with a restart: a blob of the restarted store is chosen
\* for gc and its last entry is then removed; a round of gc follows.
RestartCalls ==
    << Call("write", <<WriteOp("PUT", 1, 1), WriteOp("PUT", 2, 1)>>, <<>>, FALSE),
       Call("remove", <<>>, <<1>>, FALSE),
       Call("restart", <<>>, <<>>, FALSE),
       Call("getGCStats", <<>>, <<>>, FALSE),
       Call("remove", <<>>, <<2>>, FALSE),
       Call("write", <<WriteOp("PUT", 1, 1), WriteOp("PUT", 2, 1)>>, <<>>, FALSE),
       Call("remove", <<>>, <<1>>, FALSE),
       Call("getGCStats", <<>>, <<>>, FALSE),
       Call("gc", <<>>, <<2>>, FALSE) >>

NextRestart ==
    \/ ScriptCall(RestartCalls, RestartSeq)
    \/ PosStep
    \/ WriteBuild("w")
    \/ WriteFlush("w")
    \/ RemoveStep
    \/ GCStatsNext("g")
    \/ GcCopy("g")
    \/ GcFinal("g")
    \/ GcRevert("g")

SpecRestart == Init /\ [][NextRestart]_vars

\* One run of calls into one blob: a large page makes the blob and is
\* removed; three pages follow, the middle one is removed, and a fourth page
\* is written.  Every page has 1..MaxHoleSize bytes.
HoleCalls(s1, s2) ==
    << Call("write", <<WriteOp("PUT", 5, 3 * MaxHoleSize)>>, <<>>, FALSE),
       Call("remove", <<>>, <<5>>, FALSE),
       Call("write", <<WriteOp("PUT", 1, s1)>>, <<>>, FALSE),
       Call("write", <<WriteOp("PUT", 2, s2)>>, <<>>, FALSE),
       Call("write", <<WriteOp("PUT", 3, s1)>>, <<>>, FALSE),
       Call("remove", <<>>, <<2>>, FALSE),
       Call("write", <<WriteOp("PUT", 4, s2)>>, <<>>, FALSE) >>

HoleScripts == {HoleCalls(s1, s2) : s1, s2 \in 1..MaxHoleSize}

NextHole ==
    \/ \E calls \in HoleScripts : ScriptCall(calls, Len(calls))
    \/ GetPosChoose("w")
    \/ GetPosAlloc("w")
    \/ \E t \in {"w", "r"} : RemovePosRelease(t)
    \/ Rethrow("w")
    \/ WriteStep
    \/ RemoveStep

SpecHole == Init /\ [][NextHole]_vars

\* One run of calls in which a gc of a read-only blob overlaps with a write
\* of `size` bytes and with removes.
GcRaceCalls(size) ==
    << Call("write", <<WriteOp("PUT", 1, 1), WriteOp("PUT", 2, 1)>>, <<>>, FALSE),
       Call("remove", <<>>, <<1>>, FALSE),
       Call("getGCStats", <<>>, <<>>, FALSE),
       Call("gc", <<>>, <<2>>, FALSE),
       Call("write", <<WriteOp("PUT", 3, size)>>, <<>>, FALSE),
       Call("remove", <<>>, <<3>>, FALSE),
       Call("removeStale", <<>>, <<>>, FALSE) >>

GcRaceScripts == {GcRaceCalls(size) : size \in 1..FileLimit}

NextGcRace ==
    \/ \E calls \in GcRaceScripts : ScriptCall(calls, GcRaceSeq)
    \/ PosStep
    \/ WriteBuild("w")
    \/ WriteFlush("w")
    \/ RemoveStep
    \/ GCStatsNext("g")
    \/ GcCopy("g")
    \/ GcFinal("g")
    \/ GcRevert("g")

SpecGcRace == Init /\ [][NextGcRace]_vars

\* One run of calls in which getGCStats meets two blobs whose used boundary
\* is below their total size: a blob of FileLimit + 1 bytes is emptied, takes
\* two small pages and loses page `first`; the next blob takes two small
\* pages and loses the last one.  The calls from the getGCStats on overlap with
\* the earlier ones.
TruncateCalls(first, second) ==
    << Call("write", <<WriteOp("PUT", 5, FileLimit + 1)>>, <<>>, FALSE),
       Call("remove", <<>>, <<5>>, FALSE),
       Call("write", <<WriteOp("PUT", 1, 1), WriteOp("PUT", 2, 1)>>, <<>>, FALSE),
       Call("write", <<WriteOp("PUT", 3, 1), WriteOp("PUT", 4, 1)>>, <<>>, FALSE),
       Call("remove", <<>>, <<first>>, FALSE),
       Call("remove", <<>>, <<4>>, FALSE),
       Call("getGCStats", <<>>, <<>>, FALSE),
       Call("remove", <<>>, <<second>>, FALSE) >>

TruncateScripts == {TruncateCalls(first, 3 - first) : first \in 1..2}

NextTruncate ==
    \/ \E calls \in TruncateScripts : ScriptCall(calls, TruncateSeq)
    \/ PosStep
    \/ WriteStep
    \/ RemoveStep
    \/ GCStatsNext("g")

SpecTruncate == Init /\ [][NextTruncate]_vars

\* One run of calls with three rounds of getGCStats over a blob that is half
\* empty: the second round overlaps with a write, and the store restarts
\* before the third.
ReselectCalls ==
    << Call("write", <<WriteOp("PUT", 1, 1), WriteOp("PUT", 2, 1)>>, <<>>, FALSE),
       Call("remove", <<>>, <<1>>, FALSE),
       Call("getGCStats", <<>>, <<>>, FALSE),
       Call("write", <<WriteOp("PUT", 3, 1)>>, <<>>, FALSE),
       Call("getGCStats", <<>>, <<>>, FALSE),
       Call("restart", <<>>, <<>>, FALSE),
       Call("getGCStats", <<>>, <<>>, FALSE),
       Call("remove", <<>>, <<2>>, FALSE) >>

NextReselect ==
    \/ ScriptCall(ReselectCalls, ReselectSeq)
    \/ PosStep
    \/ WriteBuild("w")
    \/ WriteFlush("w")
    \/ RemoveStep
    \/ GCStatsNext("g")

SpecReselect == Init /\ [][NextReselect]_vars

(***************************************************************************)
(* Properties.                                                             *)
(***************************************************************************)
\* The data operations of a batch, in batch order, next to their edit records.
DataIndexes(wb) == {i \in DOMAIN wb : wb[i].type \in DataTypes}

WriteReturned == last.op = "write" /\ last.err = ""

\* C1: when write() has returned, a read of the entry of each PUT and
\* UPDATE_DATA_FROM_REMOTE operation of the batch yields exactly the bytes
\* that were written, and the checksum of the entry is the CRC64 of them.
C1_WriteReadRoundTrip ==
    WriteReturned =>
        /\ Len(last.edit) = Len(last.arg)
        /\ \A i \in DataIndexes(last.arg) :
              LET op    == last.arg[i]
                  entry == last.edit[i].entry
                  page  == ReadPage(disk, entry)
              IN  /\ entry.size = op.size
                  /\ page.err = ""
                  /\ page.data = Payload(op.page_id, op.size)
                  /\ entry.checksum = CRC64(Payload(op.page_id, op.size))

\* A batch of two data operations was written by the small path with padding.
C1_Witness ==
    /\ WriteReturned
    /\ last.path = "small"
    /\ Cardinality(DataIndexes(last.arg)) = 2
    /\ \E i \in DOMAIN last.edit : last.edit[i].entry.padded_size > 0

\* The allocated intervals and the valid_size of every stat are those of the
\* start of the call that has just failed.
StatsAsBefore == Snapshot(stats) = last.pre

WriteFailed == last.op = "write" /\ last.err # ""

\* The failures of the small-batch path that come after getPosFromStats.
AfterAllocation == last.at \in {"write", "readStrict", "UPSERT"}

\* C5: when write() fails on the small-batch path after getPosFromStats has
\* allocated its region, the whole region is released before the error
\* propagates: the allocated intervals and valid_size of the stat are those
\* of before the call.
C5_SmallWriteFailureReleases ==
    (WriteFailed /\ last.path = "small" /\ AfterAllocation) => StatsAsBefore

\* C6: a write() that ends in an error, on any path, returns no edit and
\* leaves the allocated intervals and valid_size of every stat as before.
C6_FailedWriteLeavesNoState ==
    WriteFailed => (last.edit = <<>> /\ StatsAsBefore)

GcReturned == last.op = "gc" /\ last.err = ""

\* C2: when gc() has returned, the bytes at the new entry of every input are
\* the bytes at its old entry, also when the buffer was reused for several
\* destination regions.
C2_GcPreservesData ==
    GcReturned =>
        /\ Len(last.edit) = Len(last.arg)
        /\ \A i \in DOMAIN last.arg :
              LET old == last.arg[i].entry
                  new == last.edit[i].entry
              IN  /\ new.size = old.size
                  /\ fileCanRead(disk, new.file_id, new.offset, new.size)
                  /\ fileRead(disk, new.file_id, new.offset, new.size)
                       = fileRead(disk, old.file_id, old.offset, old.size)

\* C3: in every state, under any interleaving of write, remove, getGCStats
\* and gc, every registered stat has valid_size <= used boundary <= total_size.
C3_SizeInvariant ==
    \A b \in BlobIds :
        stats[b].reg =>
            /\ stats[b].sm_valid_size <= getUsedBoundary(stats[b].smap)
            /\ getUsedBoundary(stats[b].smap) <= stats[b].sm_total_size

\* A stat with a hole in front of live data while a write and a getGCStats
\* or gc are both in flight.
C3_Witness ==
    /\ th["w"].pc # "idle"
    /\ th["g"].pc # "idle"
    /\ \E b \in BlobIds :
          /\ stats[b].reg
          /\ 0 < stats[b].sm_valid_size
          /\ stats[b].sm_valid_size < getUsedBoundary(stats[b].smap)

\* C4: no call of getPosFromStats gets an offset in a stat whose read_only
\* flag is set at the moment of the allocation.
C4_NoAllocationInReadOnly == \A t \in Threads : ~th[t].alloc_ro

GcFailed == last.op = "gc" /\ last.err \notin {"", "Abort"}

\* C7: when gc() ends in an error after it has allocated a destination
\* region, every region it allocated is released before the error
\* propagates, and no edit is returned.
C7_FailedGcReleasesRegions ==
    (GcFailed /\ last.got_pos) => (last.allocs = {} /\ last.edit = <<>>)

\* C8: within one process every stat moves only along Writable -> ReadOnly
\* -> Erased: a read-only stat does not become writable again, a writable
\* stat is not erased, and a stat is erased only in a step in which it is
\* read-only and has valid_size 0.
C8_Lifecycle ==
    [][last'.op # "restart" =>
        \A b \in BlobIds :
            /\ (stats[b].reg /\ stats[b].read_only /\ stats'[b].reg) => stats'[b].read_only
            /\ (stats[b].reg /\ ~stats'[b].reg) =>
                   (stats[b].read_only /\ stats[b].sm_valid_size = 0)]_vars

\* C9: when a release has brought a read-only stat to valid_size 0, the
\* stat is out of the registry and, at the return of the call, the file of
\* the blob is not on disk, also for a blob that only registerPaths found.
C9_EmptiedBlobRemoved ==
    (last.op # "none" /\ last.err = "") =>
        \A b \in last.emptied : ~stats[b].reg /\ ~disk[b].exists

\* C10: a stat that remove() has left with valid_size 0 and that is read-only
\* has no blob file on disk once the next round of gc (getGCStats, then gc)
\* has returned.
C10_GcRoundRemovesEmptyBlob ==
    (last.op = "gc" /\ last.err = "") =>
        \A b \in BlobIds :
            (stats[b].read_only /\ stats[b].sm_valid_size = 0 /\ stats[b].sm_total_size > 0)
                => ~disk[b].exists

\* C11: when no call is in flight (and no call has failed), every blob file
\* on disk is at least as long as the used boundary of the space map of its
\* stat, also after a small-batch write with block_alignment_bytes > 0.
C11_FileCoversUsedBoundary ==
    ((\A t \in Threads : th[t].pc = "idle") /\ faults = 0 /\ last.err = "") =>
        \A b \in BlobIds :
            (stats[b].reg /\ disk[b].exists) =>
                Len(disk[b].data) >= getUsedBoundary(stats[b].smap)

\* The bytes [begin, end) of an entry as they are on disk now.
BytesOnDisk(entry, begin, end) ==
    IF fileCanRead(disk, entry.file_id, entry.offset + begin, end - begin)
    THEN fileRead(disk, entry.file_id, entry.offset + begin, end - begin)
    ELSE <<>>

EntryIntact(entry) == CRC64(BytesOnDisk(entry, 0, entry.size)) = entry.checksum

FieldIntact(entry, index) ==
    LET fo == getFieldOffsets(entry, index)
    IN  CRC64(BytesOnDisk(entry, fo.begin, fo.end)) = entry.field_offsets[index + 1][2]

ReadDamaged ==
    CASE last.op = "readFields" ->
             \E i \in DOMAIN last.arg : \E j \in DOMAIN last.arg[i].fields :
                 last.arg[i].entry.size > 0 /\ ~FieldIntact(last.arg[i].entry, last.arg[i].fields[j])
      [] OTHER ->
             \E i \in DOMAIN last.arg :
                 last.arg[i].entry.size > 0 /\ ~EntryIntact(last.arg[i].entry)

\* C12: a read of any of the three shapes hands out data only when the bytes
\* read have the checksum of the entry (of the field, for a read of fields);
\* a read that meets other bytes fails with a checksum error and hands out
\* no page.
C12_ReadVerifiesChecksum ==
    last.op \in {"read", "readPages", "readFields"} =>
        /\ last.err = "" => ~ReadDamaged
        /\ ReadDamaged => (last.err = "Checksum" /\ last.pages = {} /\ last.data = <<>>)

C12_Witness ==
    /\ last.op = "readFields"
    /\ Len(last.arg) = 2
    /\ last.err = "Checksum"
    /\ ReadDamaged

\* The bytes of the fields idx (ascending) of the payload of a page, one
\* after the other, and where each field starts in them.
RECURSIVE FieldsOfPayload(_, _, _, _)
FieldsOfPayload(bytes, entry, idx, at) ==
    IF idx = <<>> THEN [data |-> <<>>, field_offsets |-> {}]
    ELSE LET fo   == getFieldOffsets(entry, Head(idx))
             rest == FieldsOfPayload(bytes, entry, Tail(idx), at + (fo.end - fo.begin))
         IN  [data |-> SubSeq(bytes, fo.begin + 1, fo.end) \o rest.data,
              field_offsets |-> {<<Head(idx), at>>} \cup rest.field_offsets]

ExpectedFieldPages(reqs) ==
    {LET exp == FieldsOfPayload(Payload(reqs[i].page_id, reqs[i].entry.size),
                                reqs[i].entry, SortedSeq(Range(reqs[i].fields)), 0)
     IN  Page(reqs[i].page_id, exp.data, exp.field_offsets) : i \in DOMAIN reqs}

\* C13 as stated: a read of any list of distinct field indexes of pages
\* written with fields returns, for each page, the bytes of the fields in
\* the order of the indexes and the start of each field in these bytes.
C13_FieldReadRoundTrip_AsStated ==
    (last.op = "readFields" /\ faults = 0) =>
        (last.err = "" /\ last.pages = ExpectedFieldPages(last.arg))

\* C13, amended: the same, for a read that asks for at least one byte.
C13_FieldReadRoundTrip ==
    (last.op = "readFields" /\ faults = 0 /\ ReadFieldsBufSize(last.arg) > 0) =>
        (last.err = "" /\ last.pages = ExpectedFieldPages(last.arg))

C13_Witness ==
    /\ last.op = "readFields"
    /\ faults = 0
    /\ Len(last.arg) = 2
    /\ \E i \in DOMAIN last.arg :
           /\ Len(last.arg[i].fields) = 2
           /\ last.arg[i].fields[1] > last.arg[i].fields[2]
           /\ \E pg \in last.pages : pg.page_id = last.arg[i].page_id /\ Len(pg.data) = 2

\* The data operations of a batch, in batch order.
DataOps(wb) == SelectSeq(wb, LAMBDA op : op.type \in DataTypes)

DataRecs(edit) == SelectSeq(edit, LAMBDA rec : rec.kind \in {"put", "updateRemote"}
                                              /\ rec.entry.file_id # INVALID_BLOBFILE_ID)

RECURSIVE SizesBefore(_, _)
SizesBefore(ops, i) == IF i <= 1 THEN 0 ELSE ops[i - 1].size + SizesBefore(ops, i - 1)

\* One allocation for the batch: the entries lie one after the other in it.
SharedAllocation ==
    /\ Len(last.got) = 1
    /\ last.got[1].size = getTotalDataSize(last.arg)
                          + ReplenishSize(getTotalDataSize(last.arg), block_alignment_bytes)
    /\ \A i \in DOMAIN DataRecs(last.edit) :
           /\ DataRecs(last.edit)[i].entry.file_id = last.got[1].blob_id
           /\ DataRecs(last.edit)[i].entry.offset =
                  last.got[1].offset + SizesBefore(DataOps(last.arg), i)

\* One allocation for every data operation, of its size, without padding.
OwnAllocations ==
    /\ Len(last.got) = Len(DataOps(last.arg))
    /\ Len(DataRecs(last.edit)) = Len(DataOps(last.arg))
    /\ \A i \in DOMAIN last.got :
           /\ last.got[i].size = DataOps(last.arg)[i].size
           /\ DataRecs(last.edit)[i].entry.file_id = last.got[i].blob_id
           /\ DataRecs(last.edit)[i].entry.offset = last.got[i].offset
           /\ DataRecs(last.edit)[i].entry.padded_size = 0

WriteDone == last.op = "write" /\ last.err = ""

\* C14 as stated: a batch is served by one allocation if and only if its
\* total size is in 1..file_limit_size; above the limit every data operation
\* has an allocation of its own, of its size, and padded_size 0.
C14_PathBySize_AsStated ==
    WriteDone =>
        /\ (Len(last.got) = 1) <=>
               (0 < getTotalDataSize(last.arg) /\ getTotalDataSize(last.arg) <= FileLimit)
        /\ getTotalDataSize(last.arg) > FileLimit => OwnAllocations

\* C14, amended: the batch shares one allocation if its total size is in
\* 1..file_limit_size; above the limit every data operation has its own
\* (so a batch with one data operation has one allocation there too); a
\* batch of size 0 has none.
C14_PathBySize ==
    WriteDone =>
        /\ (0 < getTotalDataSize(last.arg) /\ getTotalDataSize(last.arg) <= FileLimit)
               => SharedAllocation
        /\ getTotalDataSize(last.arg) > FileLimit => OwnAllocations
        /\ getTotalDataSize(last.arg) = 0 => last.got = <<>>
        /\ (Len(last.got) = 1 /\ Len(DataOps(last.arg)) > 1)
               => getTotalDataSize(last.arg) <= FileLimit

C14_Witness ==
    /\ WriteDone
    /\ getTotalDataSize(last.arg) = FileLimit
    /\ Len(DataOps(last.arg)) = 2
    /\ SharedAllocation

RECURSIVE SumPadded(_)
SumPadded(edit) ==
    IF edit = <<>> THEN 0 ELSE Head(edit).entry.padded_size + SumPadded(Tail(edit))

RoundedUp(total, align) ==
    IF align = 0 THEN total ELSE ((total + align - 1) \div align) * align

SmallWriteDone ==
    /\ WriteDone
    /\ 0 < getTotalDataSize(last.arg)
    /\ getTotalDataSize(last.arg) <= FileLimit

\* C15: on the small-batch path the allocation is the total size rounded up
\* to the alignment; the padding is the padded_size of the last PUT entry of
\* the edit and of no other entry, so the padded sizes of the edit sum up to
\* replenish_size; this for every batch, zero-length PUTs included.
C15_PaddingOnLastPut ==
    SmallWriteDone =>
        LET total == getTotalDataSize(last.arg)
            rep   == RoundedUp(total, block_alignment_bytes) - total
            recs  == DataRecs(last.edit)
        IN  /\ Len(last.got) = 1
            /\ last.got[1].size = RoundedUp(total, block_alignment_bytes)
            /\ \A i \in DOMAIN recs :
                   recs[i].entry.padded_size = IF i = Len(recs) THEN rep ELSE 0
            /\ SumPadded(last.edit) = rep

\* The record of the edit that belongs to an operation of a batch.
RecordOf(op, rec) ==
    /\ rec.page_id = op.page_id
    /\ CASE op.type = "PUT" ->
                /\ rec.kind = "put"
                /\ rec.entry.file_id # INVALID_BLOBFILE_ID
                /\ rec.entry.size = op.size
         [] op.type = "UPDATE_DATA_FROM_REMOTE" ->
                /\ rec.kind = "updateRemote"
                /\ rec.entry.file_id # INVALID_BLOBFILE_ID
                /\ rec.entry.size = op.size
         [] op.type = "PUT_REMOTE" ->
                /\ rec.kind = "put"
                /\ rec.entry.file_id = INVALID_BLOBFILE_ID
                /\ rec.entry.size = 0
         [] op.type = "DEL" -> rec.kind = "del"
         [] op.type = "REF" -> rec.kind = "ref" /\ rec.ori_page_id = op.ori_page_id
         [] op.type = "PUT_EXTERNAL" -> rec.kind = "putExternal"
         [] OTHER -> FALSE

\* C16: the edit of a successful write has one record for every operation of
\* the batch, in the order of the batch and of the kind of the operation, on
\* the zero-size, the small-batch and the large-batch path alike.
C16_EditMirrorsBatch ==
    WriteDone =>
        /\ Len(last.edit) = Len(last.arg)
        /\ \A i \in DOMAIN last.arg : RecordOf(last.arg[i], last.edit[i])

C16_Witness ==
    /\ WriteDone
    /\ last.path = "large"
    /\ Len(last.arg) = 2
    /\ last.arg[1].type = "REF"
    /\ last.arg[2].type = "PUT"

\* C17: a write of a batch whose total payload size is 0 allocates nothing
\* and writes no file: it returns in the step that starts it and leaves the
\* registry, the stats, the blob files and the open files as they were; the
\* empty batch returns an empty edit.
C17_ZeroSizeBatchFrame ==
    [][(last' # last /\ last'.op = "write" /\ getTotalDataSize(last'.arg) = 0) =>
          /\ nops' = nops + 1
          /\ last'.got = <<>>
          /\ UNCHANGED <<stats, roll_id, disk, blob_files>>
          /\ last'.arg = <<>> => (last'.err = "" /\ last'.edit = <<>>)]_vars

C17_Witness ==
    /\ WriteDone
    /\ Len(last.arg) = 2
    /\ getTotalDataSize(last.arg) = 0
    /\ \E b \in BlobIds : stats[b].reg /\ stats[b].sm_valid_size > 0

RemoveDone == last.op = "remove" /\ last.err = ""

\* The entries with payload bytes that a remove was handed for blob b.
DataEntriesOf(del, b) ==
    {del[i].entry : i \in {j \in DOMAIN del : /\ del[j].entry.file_id = b
                                              /\ del[j].entry.size > 0}}

RECURSIVE SumTotalSizes(_)
SumTotalSizes(S) ==
    IF S = {} THEN 0
    ELSE LET e == CHOOSE x \in S : TRUE
         IN  e.size + e.padded_size + SumTotalSizes(S \ {e})

IntervalsOf(S) == UNION {Cells(e.offset, e.size + e.padded_size) : e \in S}

\* C18: remove releases, for each entry with size > 0, exactly the interval
\* [offset, offset + size + padded_size) in the stat of its blob and lowers
\* valid_size by size + padded_size; entries with size 0 release nothing; and
\* the intervals of the entries of one small-batch write are together the
\* allocation that write made, so that removing them all gives the allocated
\* intervals of before the write.
C18_RemoveReleasesEntries ==
    /\ RemoveDone =>
           \A b \in BlobIds :
               LET now == Snapshot(stats)[b]
                   ents == DataEntriesOf(last.arg, b)
               IN  /\ now.smap = last.pre[b].smap \ IntervalsOf(ents)
                   /\ IntervalsOf(ents) \subseteq last.pre[b].smap
                   /\ now.sm_valid_size = last.pre[b].sm_valid_size - SumTotalSizes(ents)
    /\ SmallWriteDone =>
           LET ents == {rec.entry : rec \in {r \in Range(DataRecs(last.edit)) :
                                                r.entry.size > 0}}
           IN  /\ Len(last.got) = 1
               /\ \A e \in ents : e.file_id = last.got[1].blob_id
               /\ IntervalsOf(ents) = Cells(last.got[1].offset, last.got[1].size)
               /\ SumTotalSizes(ents) = last.got[1].size

\* A remove returned that was handed an entry without bytes and an entry with
\* padding, and has released the bytes and the padding.
C18_Witness ==
    /\ RemoveDone
    /\ \E i, j \in DOMAIN last.arg :
           /\ last.arg[i].entry.size = 0
           /\ last.arg[j].entry.size > 0
           /\ last.arg[j].entry.padded_size > 0
           /\ Snapshot(stats)[last.arg[j].entry.file_id].smap
                  # last.pre[last.arg[j].entry.file_id].smap
HasPages(ps) == \A p \in ps : \E e \in dir : e.page_id = p

EntryAt(p) == EntryOfPage(p).entry

\* A step in which a thread obtains a position: the position is the lowest
\* offset of its blob at which the wanted bytes are free.
LowestFit ==
    \A t \in Threads :
        Len(th'[t].got) > Len(th[t].got) =>
            LET g == th'[t].got[Len(th'[t].got)]
                b == g.blob_id
            IN  /\ g.size = th[t].need
                /\ FreeRun(stats[b].smap, stats[b].cap, g.offset, g.size)
                /\ \A o \in 0..(g.offset - 1) :
                       ~FreeRun(stats[b].smap, stats[b].cap, o, g.size)
                /\ stats'[b].smap = stats[b].smap \cup Cells(g.offset, g.size)

\* Three pages of one size lie one after the other from the head of a blob.
ThreePutsDone ==
    /\ nops = 5 /\ WriteDone /\ HasPages({1, 2, 3})
    /\ EntryAt(1).size = EntryAt(2).size /\ EntryAt(2).size = EntryAt(3).size

MiddleRemoved ==
    /\ nops = 6 /\ RemoveDone /\ HasPages({1, 3})
    /\ EntryAt(1).size = last.arg[1].entry.size
    /\ EntryAt(3).size = last.arg[1].entry.size

HoleRefilled ==
    /\ nops = 7 /\ WriteDone /\ HasPages({1, 3, 4})
    /\ EntryAt(1).size = EntryAt(4).size /\ EntryAt(3).size = EntryAt(4).size
    /\ EntryAt(3).offset = 2 * EntryAt(1).size

HoleScenario ==
    /\ ThreePutsDone =>
           LET b == EntryAt(1).file_id
               n == EntryAt(1).size
           IN  /\ \A p \in {1, 2, 3} : /\ EntryAt(p).file_id = b
                                        /\ EntryAt(p).offset = (p - 1) * n
               /\ getUsedBoundary(stats[b].smap) = 3 * n
    /\ MiddleRemoved =>
           LET e == last.arg[1].entry
               b == e.file_id
           IN  /\ e.offset = e.size
               /\ getUsedBoundary(stats[b].smap) = getUsedBoundary(last.pre[b].smap)
               /\ getUsedBoundary(stats[b].smap) = 3 * e.size
               /\ stats[b].sm_total_size >= 3 * e.size
               /\ stats[b].sm_valid_size = last.pre[b].sm_valid_size - e.size
               /\ stats[b].sm_valid_size = 2 * e.size
    /\ HoleRefilled =>
           /\ EntryAt(4).file_id = EntryAt(1).file_id
           /\ EntryAt(4).offset = EntryAt(4).size
           /\ getUsedBoundary(stats[EntryAt(4).file_id].smap) = 3 * EntryAt(4).size

\* C19: within one blob an allocation of size S is placed at the lowest
\* offset at which S contiguous bytes are free; after three PUTs of one size
\* into an empty blob and the remove of the middle one, used_boundary is as
\* before, valid_size is lower by that size, and a following PUT of the same
\* size is placed at the offset of the removed entry.
C19_LowestOffsetFirstFit == [][LowestFit]_vars /\ []HoleScenario

C19_Witness == HoleRefilled /\ EntryAt(4).offset = EntryAt(1).size /\ EntryAt(1).offset = 0
\* A step of getGCStats that examines the next stat of its snapshot: the id
\* is taken exactly when the stat is writable, has a used boundary above 0
\* and a rate of at most one half, and the stat is read-only afterwards
\* exactly when it was before or its id is taken.
ExaminesOne(t) ==
    LET b  == th[t].snapshot[th[t].k]
        ub == getUsedBoundary(stats[b].smap)
        selected == /\ ~stats[b].read_only
                    /\ ub > 0
                    /\ stats[b].sm_valid_size * 2 <= ub
    IN  /\ th'[t].blob_need_gc = IF selected THEN Append(th[t].blob_need_gc, b)
                                 ELSE th[t].blob_need_gc
        /\ stats'[b].read_only = (stats[b].read_only \/ selected)
        /\ \A c \in BlobIds \ {b} : stats'[c] = stats[c]

\* C20: getGCStats returns exactly the ids of the stats of its snapshot that
\* were writable when examined, have used_boundary > 0 and a rate valid_size /
\* used_boundary of at most heavy_gc_valid_rate, the rate equal to it
\* included; each returned stat is read-only when getGCStats returns; the
\* other stats are not returned and not made read-only by these steps.
C20_GCStatsSelection ==
    [][\A t \in Threads :
          /\ (th[t].op = "getGCStats" /\ th'[t].op = "getGCStats"
                 /\ th'[t].k = th[t].k + 1) => ExaminesOne(t)
          /\ (th[t].op = "getGCStats" /\ th'[t].op = "none" /\ last'.err = "") =>
                 /\ th[t].k = Len(th[t].snapshot) + 1
                 /\ last'.op = "getGCStats"
                 /\ last'.ids = th[t].blob_need_gc
                 /\ \A i \in DOMAIN last'.ids : stats'[last'.ids[i]].read_only
                 /\ stats' = stats
          /\ (th[t].op # "getGCStats" /\ th'[t].op = "getGCStats") =>
                 /\ th'[t].snapshot = SortedSeq({b \in BlobIds : stats[b].reg})
                 /\ th'[t].blob_need_gc = <<>>
                 /\ th'[t].k = 1]_vars

\* getGCStats returned the one blob whose rate is exactly one half and left a
\* fuller blob writable.
C20_Witness ==
    /\ last.op = "getGCStats" /\ last.err = ""
    /\ Len(last.ids) = 1
    /\ stats[last.ids[1]].read_only
    /\ stats[last.ids[1]].sm_valid_size * 2 = getUsedBoundary(stats[last.ids[1]].smap)
    /\ \E c \in BlobIds : /\ stats[c].reg /\ ~stats[c].read_only
                          /\ stats[c].sm_valid_size = getUsedBoundary(stats[c].smap)
                          /\ stats[c].sm_valid_size > 0
GcDone == last.op = "gc" /\ last.err = ""

SourceBlobs(ents) == {ents[i].entry.file_id : i \in DOMAIN ents}

\* C21: a gc of live entries of read-only source blobs places no entry in a
\* source blob of the call: neither a region it holds while it runs nor the
\* file_id of an upsert of the edit it returns is a source blob id, whatever
\* writes and removes run at the same time.
C21_GcLeavesSourceBlobs ==
    /\ GcDone => \A i \in DOMAIN last.edit :
                     last.edit[i].entry.file_id \notin SourceBlobs(last.arg)
    /\ \A t \in Threads :
           (th[t].op = "gc" /\ th[t].pc \in {"gc_copy", "gc_roll", "gc_final"}) =>
               th[t].blob_id \notin SourceBlobs(th[t].ents)

\* A gc returned an edit while a write was under way.
C21_Witness ==
    /\ GcDone
    /\ Len(last.edit) >= 1
    /\ th["w"].pc # "idle"
\* C22: no step of a gc changes a source blob of the call: the stat (its
\* allocated intervals, valid_size and place in the registry) and the blob
\* file of every source blob id are after the step what they were before it,
\* to the return or the failure of the call; and the stat of a read-only
\* blob leaves the registry only in a step of remove at valid_size 0.
C22_GcKeepsSourceBlobs ==
    [][/\ th["g"].op = "gc" =>
           \A b \in SourceBlobs(th["g"].ents) :
               /\ stats'[b] = stats[b]
               /\ disk'[b] = disk[b]
       /\ \A b \in BlobIds :
              (stats[b].reg /\ stats[b].read_only /\ ~stats'[b].reg /\ last'.op # "restart") =>
                  /\ th["r"].op = "remove"
                  /\ stats[b].sm_valid_size = 0]_vars

\* A gc returned, with or without an error, and its source blob is there with
\* its bytes.
C22_Witness ==
    /\ last.op = "gc"
    /\ last.arg # <<>>
    /\ last.got # <<>>
    /\ \A b \in SourceBlobs(last.arg) :
           stats[b].reg /\ stats[b].read_only /\ stats[b].smap # {} /\ disk[b].exists
\* C23: a gc with a total payload size of 0 fails with a Logic error in the
\* step that starts it: no region is allocated, nothing is read or written,
\* the registry, the stats and the blob files are as before, and there is
\* no edit.
C23_GcOfNothingFails ==
    [][(last' # last /\ last'.op = "gc" /\ EntrySizeSum(last'.arg) = 0) =>
          /\ last'.err = "Logic"
          /\ last'.edit = <<>>
          /\ last'.got = <<>>
          /\ nops' = nops + 1
          /\ UNCHANGED <<stats, roll_id, disk, blob_files, dir, stale>>]_vars

\* The gc of nothing failed in a store that holds a read-only blob.
C23_Witness ==
    /\ last.op = "gc" /\ last.err = "Logic" /\ last.at = "total"
    /\ \E b \in BlobIds : stats[b].reg /\ stats[b].read_only /\ stats[b].smap # {}
LargestEntry(ents) == SetMax({0} \cup {ents[i].entry.size : i \in DOMAIN ents})

\* C24: in gc alloc_size is the total payload size when that is at most
\* file_limit_size and the larger of file_limit_size and the largest entry
\* size otherwise; the entry that gc is about to copy into an empty buffer
\* fits the buffer, and the entries copied so far fill at most alloc_size
\* bytes; a gc of a single entry above file_limit_size meets no Logic error.
C24_GcBufferHoldsEveryEntry ==
    /\ \A t \in Threads :
           th[t].op = "gc" =>
               /\ th[t].total = EntrySizeSum(th[t].ents)
               /\ th[t].alloc_size =
                      IF th[t].total <= FileLimit THEN th[t].total
                      ELSE Max2(FileLimit, LargestEntry(th[t].ents))
               /\ th[t].offset_in_data <= th[t].alloc_size
               /\ Len(th[t].data_buf) = th[t].offset_in_data
               /\ (th[t].pc = "gc_copy" /\ th[t].k <= Len(th[t].ents)
                      /\ th[t].offset_in_data = 0) =>
                      th[t].ents[th[t].k].entry.size <= th[t].alloc_size
    /\ (last.op = "gc" /\ Len(last.arg) = 1 /\ last.arg[1].entry.size > FileLimit) =>
           /\ last.err \in {"", "Io", "Alloc"}
           /\ last.err = "" => /\ Len(last.edit) = 1
                               /\ ReadPage(disk, last.edit[1].entry).err = ""

\* A gc of one entry above file_limit_size returned its edit.
C24_Witness ==
    /\ GcDone
    /\ Len(last.arg) = 1
    /\ last.arg[1].entry.size > FileLimit
    /\ Len(last.edit) = 1
\* Thread t has the lock of the stat it chose, or takes it in its next step.
AtDecrement(t) ==
    /\ th[t].pc = "alloc"
    /\ th[t].holds \/ (th[t].waitfor = "" /\ LockFree(th[t].stat, t))

\* C25: whatever the interleaving of the calls of getPosFromStats of writers
\* and gc, a thread that has chosen a stat finds sm_max_caps >= size at the
\* speculative decrement, and its allocation in the chosen stat succeeds:
\* no call fails with the Logic error of getPosFromStats.
C25_ChosenStatHasRoom ==
    /\ \A t \in Threads : AtDecrement(t) => stats[th[t].stat].sm_max_caps >= th[t].need
    /\ ~(last.err = "Logic" /\ last.at = "getPosFromStats")
LockRank(l) == CASE l = "registry" -> 1 [] l = "stat" -> 2 [] l = "blob_files" -> 3

\* The threads that thread t cannot pass: those that have the lock of the
\* registry, and those in getPosFromStats at the same stat.
WaitsBehind(t) ==
    {u \in Threads \ {t} :
        \/ th[t].pc \in {"choose", "erase"} /\ th[u].pc = "alloc" /\ ~th[u].holds
        \/ /\ StatOpTarget(t) # INVALID_BLOBFILE_ID
           /\ InGetPos(u, StatOpTarget(t))
           /\ th[u].holds \/ th[u].waitfor \notin {"", t} \/ th[t].waitfor = u
        \/ th[t].pc = "alloc" /\ th[t].waitfor = u}

BlobsInUse ==
    {a[1] : a \in UNION {th[t].allocs : t \in Threads}}
        \cup {e.entry.file_id : e \in {d \in dir : d.entry.size > 0}}

\* C27: whatever the interleaving of write, getGCStats and remove, a stat
\* that has left the registry, and a blob file that has been unlinked with
\* it, holds no region of a call in flight and no region of an entry that a
\* write or gc has returned and that has not been released: a writer that
\* chose a stat before getGCStats marked it read-only does not end up with
\* an entry in it after a remove has decided to erase it.
C27_NoEraseOfBlobInUse ==
    \A b \in BlobsInUse : stats[b].reg
\* C28: when an entry does not fit the rest of the region of a gc, the span
\* that gc releases is the unused tail of the region, from file_offset_begin
\* + offset_in_data to file_offset_begin + alloc_size, at whatever offset
\* the region lies in its blob; the filled part of the buffer is then
\* written at file_offset_begin, and the next region has the size of the
\* smaller of the remaining payload and alloc_size.
C28_GcReleasesUnusedTail ==
    \A t \in Threads :
        /\ (th[t].op = "gc" /\ th[t].pc = "release" /\ th[t].after = "gc_roll") =>
               th[t].rel = [blob_id |-> th[t].blob_id,
                            offset |-> th[t].offset + th[t].offset_in_data,
                            size |-> th[t].alloc_size - th[t].offset_in_data]
        /\ (th[t].op = "gc" /\ th[t].pc = "choose" /\ th[t].written_blobs # <<>>) =>
               LET w == th[t].written_blobs[Len(th[t].written_blobs)]
                   left == EntrySizeSum(SubSeq(th[t].ents, th[t].k, Len(th[t].ents)))
               IN  /\ w.blob_id = th[t].blob_id /\ w.offset = th[t].offset
                   /\ th[t].need = Min2(left, th[t].alloc_size)
\* A step of gc that takes the next entry of its input into the buffer.
GcTakesEntry(t) ==
    /\ th[t].op = "gc" /\ th'[t].op = "gc"
    /\ th'[t].k = th[t].k + 1

UpsertOf(t) ==
    LET src == th[t].ents[th[t].k]
        new == th'[t].edit[Len(th'[t].edit)]
    IN  /\ th'[t].edit = Append(th[t].edit, new)
        /\ new.kind = "upsert"
        /\ new.page_id = src.page_id
        /\ new.entry.size = src.entry.size
        /\ new.entry.checksum = src.entry.checksum
        /\ new.entry.field_offsets = src.entry.field_offsets
        /\ new.entry.padded_size = 0
        /\ new.entry.file_id = th[t].blob_id
        /\ new.entry.offset = th[t].offset + th[t].offset_in_data
        /\ th[t].offset_in_data = Len(th[t].data_buf)
        /\ th[t].got # <<>>
        /\ th[t].got[Len(th[t].got)].blob_id = th[t].blob_id
        /\ th[t].got[Len(th[t].got)].offset = th[t].offset

\* The edit of a gc that has returned: one upsert for every entry of the
\* input, in the order of the input.
GcEditMirrorsInput ==
    GcDone =>
        /\ Len(last.edit) = Len(last.arg)
        /\ \A i \in DOMAIN last.arg :
               /\ last.edit[i].kind = "upsert"
               /\ last.edit[i].page_id = last.arg[i].page_id
               /\ last.edit[i].entry.size = last.arg[i].entry.size
               /\ last.edit[i].entry.checksum = last.arg[i].entry.checksum
               /\ last.edit[i].entry.field_offsets = last.arg[i].entry.field_offsets
               /\ last.edit[i].entry.padded_size = 0
               /\ \E j \in DOMAIN last.got :
                      /\ last.edit[i].entry.file_id = last.got[j].blob_id
                      /\ last.edit[i].entry.offset >= last.got[j].offset

ExaminesWritable(t) ==
    /\ th[t].op = "getGCStats" /\ th'[t].op = "getGCStats"
    /\ th'[t].k = th[t].k + 1
    /\ ~stats[th[t].snapshot[th[t].k]].read_only
    /\ getUsedBoundary(stats[th[t].snapshot[th[t].k]].smap) > 0

\* What that step does to a stat of a rate of at most 1: total_size is the
\* used boundary afterwards, and the file has that length when the two
\* differed and is left alone when they did not.
TruncatedToBoundary(t) ==
    LET b  == th[t].snapshot[th[t].k]
        ub == getUsedBoundary(stats[b].smap)
    IN  /\ stats'[b].sm_total_size = ub
        /\ getUsedBoundary(stats'[b].smap) = ub
        /\ stats'[b].sm_valid_size = stats[b].sm_valid_size
        /\ IF stats[b].sm_total_size # ub
           THEN disk'[b].exists /\ Len(disk'[b].data) = ub
           ELSE disk'[b] = disk[b]
        /\ \A c \in BlobIds \ {b} : disk'[c] = disk[c]

\* What that step does to a stat of a rate above 1: nothing.
SkippedUntouched(t) ==
    /\ stats' = stats
    /\ disk' = disk
    /\ th'[t].blob_need_gc = th[t].blob_need_gc

\* The statement at the return of getGCStats: every stat that the call has
\* examined as writable, with a used boundary above 0 and a rate of at most
\* 1, has total_size equal to its used boundary.
C30_TruncatedAtReturn ==
    [][\A t \in Threads :
          (th[t].op = "getGCStats" /\ th'[t].op = "none" /\ last'.err = "") =>
              \A e \in th[t].examined :
                  stats'[e.blob_id].sm_total_size
                      = getUsedBoundary(stats'[e.blob_id].smap)]_vars

\* C30: when getGCStats has examined a writable stat with used_boundary > 0
\* and a rate of at most 1, and still holds its lock, the stat has total_size
\* equal to used_boundary, and its blob file was truncated to used_boundary
\* if the two differed, for a stat selected for gc as for one left writable;
\* a stat of a rate above 1 is left as it is: not truncated, not read-only,
\* not returned.  A remove that overlaps with the call can lower the used
\* boundary of an examined stat before the call returns.
C30_TruncatesExaminedStat ==
    [][\A t \in Threads :
          ExaminesWritable(t) =>
              IF stats[th[t].snapshot[th[t].k]].sm_valid_size
                     <= getUsedBoundary(stats[th[t].snapshot[th[t].k]].smap)
              THEN TruncatedToBoundary(t)
              ELSE SkippedUntouched(t)]_vars

\* A getGCStats has cut down two blobs whose total size was above their used
\* boundary: one that it has selected for gc and one that it has left
\* writable.
CutDown(e) ==
    LET b == e.blob_id
    IN  /\ stats[b].reg
        /\ e.sm_total_size > stats[b].sm_total_size
        /\ stats[b].sm_total_size = getUsedBoundary(stats[b].smap)
        /\ stats[b].sm_valid_size > 0
        /\ disk[b].exists /\ Len(disk[b].data) = stats[b].sm_total_size

C30_Witness ==
    \E e1, e2 \in th["g"].examined :
        /\ CutDown(e1) /\ CutDown(e2)
        /\ e1.blob_id \in Range(th["g"].blob_need_gc) /\ stats[e1.blob_id].read_only
        /\ e2.blob_id \notin Range(th["g"].blob_need_gc) /\ ~stats[e2.blob_id].read_only

\* A step of getGCStats on a writable stat whose used boundary is 0.
ExaminesEmpty(t) ==
    /\ th[t].op = "getGCStats"
    /\ th[t].k <= Len(th[t].snapshot)
    /\ th'[t] # th[t]
    /\ ~stats[th[t].snapshot[th[t].k]].read_only
    /\ getUsedBoundary(stats[th[t].snapshot[th[t].k]].smap) = 0

\* What that step does: the stat has no valid byte, the file is there with
\* length 0, total_size is 0, the stat stays writable with the room it had,
\* and its id is not taken.
TruncatedToZero(t) ==
    LET b == th[t].snapshot[th[t].k]
    IN  /\ stats[b].sm_valid_size = 0
        /\ th'[t].op = "getGCStats" /\ th'[t].k = th[t].k + 1
        /\ th'[t].blob_need_gc = th[t].blob_need_gc
        /\ stats'[b] = [stats[b] EXCEPT !.sm_total_size = 0]
        /\ ~stats'[b].read_only
        /\ disk'[b].exists /\ disk'[b].data = <<>>
        /\ \A c \in BlobIds \ {b} : stats'[c] = stats[c] /\ disk'[c] = disk[c]

\* After that step chooseStat gives the stat, or one of a lower id, to every
\* size that fits in the room the stat claims.
StillChoosable(t) ==
    LET b == th[t].snapshot[th[t].k]
    IN  \A size \in 1..stats'[b].sm_max_caps :
            /\ chooseStat(stats', size) # INVALID_BLOBFILE_ID
            /\ chooseStat(stats', size) <= b

CellsInUse(b) ==
    {a[2] : a \in {x \in UNION {th[t].allocs : t \in Threads} : x[1] = b}}
        \cup UNION {Cells(e.entry.offset, e.entry.size) :
                       e \in {d \in dir : d.entry.file_id = b}}

\* A step of getGCStats that truncates the file of the stat it examines.
TruncatesFile(t) ==
    /\ th[t].op = "getGCStats" /\ th'[t].op = "getGCStats"
    /\ th'[t].k = th[t].k + 1
    /\ \/ th'[t].zeroed # th[t].zeroed
       \/ /\ th'[t].examined # th[t].examined
          /\ NeedTruncate(getUsedBoundary(stats[th[t].snapshot[th[t].k]].smap),
                          stats[th[t].snapshot[th[t].k]].sm_total_size)

\* C32: whenever getGCStats truncates a blob file, under any interleaving
\* with writes, removes and gc, no byte of a live entry and no byte of a
\* region that a call in flight has allocated lies at or beyond the new size.
C32_TruncateKeepsAllocated ==
    [][\A t \in Threads :
          TruncatesFile(t) =>
              LET b == th[t].snapshot[th[t].k]
              IN  /\ Len(disk'[b].data) = getUsedBoundary(stats[b].smap)
                  /\ \A c \in CellsInUse(b) : c < Len(disk'[b].data)]_vars

\* A getGCStats has cut a blob file down to the used boundary while a write
\* was in flight whose region, not yet written, ends at that boundary.
C32_Witness ==
    \E e \in th["g"].examined :
        /\ th["g"].op = "getGCStats"
        /\ e.sm_total_size > stats[e.blob_id].sm_total_size
        /\ th["w"].op = "write" /\ th["w"].pc \in {"build", "write"}
        /\ th["w"].blob_id = e.blob_id
        /\ th["w"].offset + th["w"].need = getUsedBoundary(stats[e.blob_id].smap)
        /\ Len(disk[e.blob_id].data) = getUsedBoundary(stats[e.blob_id].smap)
        /\ \A c \in Cells(th["w"].offset, th["w"].need) : <<e.blob_id, c>> \in th["w"].allocs

\* The entries with bytes that a write or gc has returned and that have not
\* been passed to remove: the live ones and the ones a gc has superseded.
HeldEntries == {e \in dir \cup stale : e.entry.size > 0}

\* The bytes of an entry, its padding included.
RegionOf(e) == Cells(e.entry.offset, e.entry.size + e.entry.padded_size)

\* The entries of a small-batch write that has just returned lie one after
\* the other, in batch order, from the offset of the region of the write.
BackToBack ==
    (WriteReturned /\ last.path = "small" /\ Len(last.got) = 1) =>
        \A i \in DOMAIN DataRecs(last.edit) :
            /\ DataRecs(last.edit)[i].entry.file_id = last.got[1].blob_id
            /\ DataRecs(last.edit)[i].entry.offset =
                   last.got[1].offset + SizesBefore(DataOps(last.arg), i)

\* C33: in every state the regions [offset, offset + size + padded_size) of
\* the entries with size > 0 that a write or gc has returned and that have
\* not been passed to remove are pairwise disjoint within a blob and lie in
\* bytes that the space map of the blob holds as allocated; the PUT entries
\* of one small-batch write lie back to back in batch order from the offset
\* of the region.
C33_EntriesDisjointAndAllocated ==
    /\ \A e1, e2 \in HeldEntries :
           (e1 # e2 /\ e1.entry.file_id = e2.entry.file_id)
               => RegionOf(e1) \cap RegionOf(e2) = {}
    /\ \A e \in HeldEntries :
           /\ stats[e.entry.file_id].reg
           /\ RegionOf(e) \subseteq stats[e.entry.file_id].smap
    /\ BackToBack

\* The bytes, padding included, of the held entries of blob b.
HeldBytes(b) == SumTotalSizes({e.entry : e \in {h \in HeldEntries : h.entry.file_id = b}})

\* C34: whenever no call is in flight, the valid_size of every stat is the
\* sum of size + padded_size of the entries with size > 0 in its blob that a
\* write or gc has returned and that have not been removed: no write, gc,
\* rolled-back failure or remove leaves allocated bytes without such an
\* entry.
C34_ValidSizeIsHeldBytes ==
    (\A t \in Threads : th[t].pc = "idle") =>
        \A b \in BlobIds : stats[b].reg => stats[b].sm_valid_size = HeldBytes(b)

\* Blob b is in the list of a getGCStats in flight or of the getGCStats that
\* has just returned.
Shown(b) ==
    \/ b \in Range(th["g"].blob_need_gc)
    \/ last.op = "getGCStats" /\ b \in Range(last.ids)

\* A step of getGCStats that takes the id of the stat it examines.
TakesId(t) ==
    /\ th[t].op = "getGCStats" /\ th'[t].op = "getGCStats"
    /\ Len(th'[t].blob_need_gc) = Len(th[t].blob_need_gc) + 1

RestartStep == last'.op = "restart" /\ nops' = nops + 1

\* Once the id of a blob has left the list of a getGCStats, no list shows it
\* again.  Holds for the calls on one store; a store built anew over the same
\* files starts with every stat writable.
ShownAtMostOnce ==
    \A b \in BlobIds : [](Shown(b) => [](~Shown(b) => []~Shown(b)))

LargeWriteFailed ==
    /\ last.op = "write" /\ last.path = "large"
    /\ last.err = "Io" /\ last.at = "write"

\* The bytes of the allocations i of the failed call that lie in blob b.
KeptBytes(b, n) ==
    SumTotalSizes({[offset |-> last.got[i].offset, size |-> last.got[i].size,
                    padded_size |-> 0] : i \in {j \in 1..n : last.got[j].blob_id = b}})

\* C36: a large write that fails at the payload of its k-th data operation
\* has released the region of that operation; the regions of the k-1
\* operations before it are still allocated and counted in the valid size of
\* their stats, no directory entry holds them, and the call returns no edit.
C36_LargeFailureKeepsEarlier ==
    LargeWriteFailed =>
        LET k == Len(last.got)
        IN  /\ k >= 1
            /\ last.got[k].size = DataOps(last.arg)[k].size
            /\ \A c \in Cells(last.got[k].offset, last.got[k].size) :
                   /\ c \notin stats[last.got[k].blob_id].smap
                   /\ <<last.got[k].blob_id, c>> \notin last.allocs
            /\ \A i \in 1..(k - 1) :
                   /\ last.got[i].size = DataOps(last.arg)[i].size
                   /\ stats[last.got[i].blob_id].reg
                   /\ Cells(last.got[i].offset, last.got[i].size)
                          \subseteq stats[last.got[i].blob_id].smap
                   /\ \A e \in dir :
                          e.entry.file_id = last.got[i].blob_id =>
                              RegionOf(e) \cap Cells(last.got[i].offset, last.got[i].size) = {}
            /\ \A b \in BlobIds :
                   stats[b].reg =>
                       stats[b].sm_valid_size = last.pre[b].sm_valid_size + KeptBytes(b, k - 1)
            /\ last.edit = <<>>

\* The second payload of a large batch has failed after the first was
\* written.
C36_Witness ==
    /\ LargeWriteFailed
    /\ Len(last.got) = 2
    /\ last.got[1].size > 0 /\ last.got[2].size > 0
    /\ Cells(last.got[1].offset, last.got[1].size) \subseteq stats[last.got[1].blob_id].smap

\* The batch of the write that has returned holds an operation that write()
\* does not accept: an UPSERT, or a PUT or UPDATE_DATA_FROM_REMOTE in a batch
\* without payload bytes.
RejectedBatch ==
    /\ last.op = "write"
    /\ \/ HasUpsert(last.arg)
       \/ /\ getTotalDataSize(last.arg) = 0
          /\ \E i \in DOMAIN last.arg : last.arg[i].type \in DataTypes

\* The places at which a failure of the file system or of the creation of a
\* blob ends a call.
FailurePoints == {"createStat", "readStrict", "write"}

SlotsOfRead ==
    ReadPagesFrom(disk, SortByOffset(last.arg), 0,
                  BlankBuffer(SumSizes([i \in DOMAIN last.arg |-> last.arg[i].entry]))).slots

SlotCells(slot) == {slot.pos + i : i \in 1..slot.size}

RECURSIVE SumSlotSizes(_)
SumSlotSizes(S) ==
    IF S = {} THEN 0
    ELSE LET slot == CHOOSE x \in S : TRUE
         IN  slot.size + SumSlotSizes(S \ {slot})

\* The lists of the same entries in every order.
Reorderings(reqs) ==
    {q \in EntrySeqs(Range(reqs), Len(reqs)) : Range(q) = Range(reqs)}

\* C38: a batch read of whole pages with distinct ids fails when the read
\* of one of its entries alone fails; otherwise it returns one page per
\* entry, under the id of the entry, with the data and the field offsets
\* that the read of that entry alone returns, the same pages for every order
\* of the list and for entries in one blob file or in several; the slots of
\* the pages are pairwise disjoint parts of the buffer and their lengths sum
\* to its size.
C38_BatchReadAsSingleReads ==
    last.op = "readPages" =>
        LET reqs   == last.arg
            single == [i \in DOMAIN reqs |-> ReadPage(disk, reqs[i].entry)]
            total  == SumSizes([i \in DOMAIN reqs |-> reqs[i].entry])
        IN  /\ (\E i \in DOMAIN reqs : single[i].err # "") =>
                   /\ last.err \in {single[i].err : i \in DOMAIN reqs} \ {""}
                   /\ last.pages = {}
            /\ (\A i \in DOMAIN reqs : single[i].err = "") =>
                   /\ last.err = ""
                   /\ last.pages = {Page(reqs[i].page_id, single[i].data,
                                         EntryFieldOffsets(reqs[i].entry)) : i \in DOMAIN reqs}
                   /\ Cardinality(last.pages) = Len(reqs)
                   /\ \A q \in Reorderings(reqs) : ReadPages(disk, q).pages = last.pages
                   /\ {slot.page_id : slot \in SlotsOfRead} = {reqs[i].page_id : i \in DOMAIN reqs}
                   /\ \A s1, s2 \in SlotsOfRead :
                          s1 # s2 => SlotCells(s1) \cap SlotCells(s2) = {}
                   /\ \A slot \in SlotsOfRead : SlotCells(slot) \subseteq 1..total
                   /\ SumSlotSizes(SlotsOfRead) = total

\* A batch read has returned the pages of two entries that lie in different
\* blob files.
C38_Witness ==
    /\ last.op = "readPages" /\ last.err = ""
    /\ Len(last.arg) = 2
    /\ last.arg[1].entry.file_id # last.arg[2].entry.file_id
    /\ Cardinality(last.pages) = 2
    /\ \A page \in last.pages : page.data # <<>>
====
